---- MODULE Spec2Model ----
(***************************************************************************)
(* rusty-duplication: one Capturer<Buffer> bound to one Monitor            *)
(* (src/src/capturer.rs, src/src/monitor.rs).  The DXGI output             *)
(* duplication, the staging texture and the compositor are the            *)
(* environment; every driver call the code makes is one step (Spec).      *)
(* SpecExt applies the functions of ext.rs / utils.rs one at a time;       *)
(* SpecShared runs the pointer shape slots of capturer/shared.rs and       *)
(* capturer/custom.rs.                                                      *)
(***************************************************************************)
EXTENDS Integers, Naturals, Sequences, FiniteSets, TLC

\* ---------------------------------------------------------------- bounds
MaxPixels == 2     \* modes have Width * Height <= MaxPixels
MaxPad == 1        \* the driver pads a row by 0..MaxPad times PadStep bytes
PadStep == 3
MaxShapeSize == 2  \* PointerShapeBufferSize 0..MaxShapeSize (bytes)
NumFrames == 2     \* distinct desktop images the compositor presents

\* ------------------------------------------------------- program constants
BytesPerPixel == 4
U32Half == 65536   \* 2^16; 2^32 itself is beyond the checker's integers

\* HRESULT values the driver answers with
S_OK == "S_OK"
WAIT_TIMEOUT == "DXGI_ERROR_WAIT_TIMEOUT"
ACCESS_LOST == "DXGI_ERROR_ACCESS_LOST"
INVALID_CALL == "DXGI_ERROR_INVALID_CALL"
E_FAIL == "E_FAIL"

\* api tags, the stringify!(...) arguments of the map_err calls
API_ACQUIRE == "IDXGIOutputDuplication.AcquireNextFrame"
API_RELEASE == "IDXGIOutputDuplication.ReleaseFrame"
API_SHAPE == "IDXGIOutputDuplication.GetFramePointerShape"
API_MAP == "IDXGISurface1.Map"
API_UNMAP == "IDXGISurface1.Unmap"
API_GETDESC == "DXGI_OUTPUT_DESC.GetDesc"
API_CREATETEX == "ID3D11Device.CreateTexture2D"

VARIABLES
  mode,                 \* DXGI_OUTDUPL_DESC.ModeDesc as the driver reports it now
  dupl,                 \* duplication session: "idle" | "held" | "lost"
  frame,                \* image of the frame the duplication holds (0: none)
  staging,              \* image held by the staging texture (0: none yet)
  mapped,               \* Map succeeded and Unmap has not been issued since
  buffer,               \* Capturer::buffer, as bytes
  pointer_shape_buffer, \* Capturer::pointer_shape_buffer
  texture_desc,         \* Capturer::texture_desc (cached at construction)
  pc,                   \* position inside the current call
  op,                   \* the public method being (or last) executed
  frame_info,           \* local of the current call
  pointer_shape_info,   \* local of the current call
  pending,              \* the Err(e) of GetFramePointerShape awaiting release
  mapped_surface,       \* DXGI_MAPPED_RECT of the current Map (Pitch)
  result,               \* value returned by the last finished call
  calls,                \* driver calls issued by the current/last call, in order
  pre,                  \* buffers and mode as they were when the call began
  copied,               \* extent of the last pixel copy (reads/writes)
  largest_shape,        \* largest PointerShapeBufferSize a shape fetch was set up for
  arg,                  \* argument of the function under test (SpecExt)
  ret,                  \* what the function under test returned
  shared,               \* pointer shape slots of a SharedCapturer/CustomCapturer
  delivered,            \* the last two pointer shapes the driver delivered
  mappings,             \* named file-mapping objects the system holds
  sm,                   \* the SharedCapturer made by new and the one made by open
  created,              \* names under which a file mapping was ever created
  sys,                  \* adapters and outputs of the machine (Factory)
  scanner,              \* Factory: its indices and what next() has yielded
  sessions,             \* one duplication session per output
  caps,                 \* one Capturer per thread
  turn,                 \* the thread that made the last step
  manager               \* Manager: its contexts and what refresh returned

vars == <<mode, dupl, frame, staging, mapped, buffer,
          pointer_shape_buffer, texture_desc, pc, op, frame_info,
          pointer_shape_info, pending, mapped_surface, result, calls, pre,
          copied, largest_shape, arg, ret, shared, delivered,
          mappings, sm, created, sys, scanner, sessions, caps, turn,
          manager>>

\* the state of the shared-memory backend, of the Factory and of the
\* capturers running side by side
xvars == <<mappings, sm, created, sys, scanner, sessions, caps, turn,
           manager>>

\* what the Capturer of capturer.rs never touches
hvars == <<arg, ret, shared, delivered, xvars>>

\* no SharedCapturer has been constructed
ShmOff == mappings = <<>> /\ sm = <<>> /\ created = {}

\* no Factory has been constructed
ScanOff == sys = <<>> /\ scanner = <<>>

\* no second Capturer runs beside the first
MultiOff == sessions = <<>> /\ caps = <<>> /\ turn = 0

\* no Manager has been constructed
MgrOff == manager = <<>>

\* ------------------------------------------------------------ value spaces
Modes == { m \in [Width : 1..MaxPixels, Height : 1..MaxPixels] :
             m.Width * m.Height <= MaxPixels }
Pads == { k * PadStep : k \in 0..MaxPad }
\* DXGI_OUTPUT_DESC.Rotation.0: DXGI_MODE_ROTATION_IDENTITY, _ROTATE90
Rotations == {1, 2}

Max(a, b) == IF a > b THEN a ELSE b

\* frame infos the driver hands out: every acquired frame presents a new
\* image, and a new pointer shape implies a mouse update
FrameInfos ==
  { fi \in [LastPresentTime : {1}, LastMouseUpdateTime : {0, 1},
            PointerShapeBufferSize : 0..MaxShapeSize] :
      fi.PointerShapeBufferSize > 0 => fi.LastMouseUpdateTime # 0 }

NoFrameInfo == [LastPresentTime |-> 0, LastMouseUpdateTime |-> 0,
                PointerShapeBufferSize |-> 0]

\* ------------------------------------------------------------------ errors
NoErr == [kind |-> "none", api |-> "", code |-> ""]
InvalidBufferLength == [kind |-> "InvalidBufferLength", api |-> "", code |-> ""]

\* the Err a caller-supplied buffer_factory returns
FactoryError == [kind |-> "Factory", api |-> "", code |-> ""]

\* Error::windows(api, err): the variant keeps both the tag and the code
windows(api, err) == [kind |-> "Windows", api |-> api, code |-> err]

\* mutant: the error keeps the api tag only
from_win_err_tag_only(api, e) == [kind |-> "Windows", api |-> api, code |-> ""]

\* Error::from_win_err(api) applied to the driver's error e
from_win_err(api, e) == windows(api, e)

NoResult == [tag |-> "none", err |-> NoErr, frame_info |-> NoFrameInfo,
             pointer_shape_info |-> "None"]
Err(e) == [tag |-> "Err", err |-> e, frame_info |-> NoFrameInfo,
           pointer_shape_info |-> "None"]
Ok(fi, psi) == [tag |-> "Ok", err |-> NoErr, frame_info |-> fi,
                pointer_shape_info |-> psi]

\* ------------------------------------------------------------- geometry
\* Numbers beyond the checker's integers are kept as two limbs, value
\* hi * 2^16 + lo with 0 <= lo < 2^16; a u32 has hi < 2^16 as well.
Wide(n) == [hi |-> n \div U32Half, lo |-> n % U32Half]

AddWide(x, y) ==
  [hi |-> x.hi + y.hi + ((x.lo + y.lo) \div U32Half),
   lo |-> (x.lo + y.lo) % U32Half]

\* x * n as a mathematical integer
RECURSIVE MulWide(_, _)
MulWide(x, n) ==
  IF n = 0 THEN Wide(0)
  ELSE LET h == MulWide(x, n \div 2)
           d == AddWide(h, h)
       IN IF n % 2 = 1 THEN AddWide(d, x) ELSE d

\* x mod 2^32, the value a u32 keeps of x
WrapU32(x) == [hi |-> x.hi % U32Half, lo |-> x.lo]

\* a u32 product left the 32 bits
Overflows(x) == x.hi >= U32Half

\* the limbs as one integer (hi < 2^15)
AsUsize(x) == x.hi * U32Half + x.lo

\* `self.ModeDesc.Width * self.ModeDesc.Height * 4` in u32, both products
\* wrapping as the release build computes them
calc_buffer_size_u32(m) ==
  WrapU32(MulWide(WrapU32(MulWide(Wide(m.Width), m.Height)), BytesPerPixel))

\* one of the two u32 products overflows (the debug build panics there)
calc_buffer_size_overflows(m) ==
  \/ Overflows(MulWide(Wide(m.Width), m.Height))
  \/ Overflows(MulWide(WrapU32(MulWide(Wide(m.Width), m.Height)),
                       BytesPerPixel))

\* OutDuplDescExt::calc_buffer_size: u32 arithmetic, then widened to usize
calc_buffer_size(m) == AsUsize(calc_buffer_size_u32(m))

\* mutant: the texture takes the mode's geometry whatever the rotation
create_texture_desc_unrotated(dupl_desc, rot) ==
  [Width |-> dupl_desc.Width, Height |-> dupl_desc.Height]

\* Width/Height of the D3D11_TEXTURE2D_DESC built for the staging texture
create_texture_desc(dupl_desc, rot) ==
  [Width  |-> IF rot = 2 \/ rot = 4 THEN dupl_desc.Height ELSE dupl_desc.Width,
   Height |-> IF rot = 2 \/ rot = 4 THEN dupl_desc.Width ELSE dupl_desc.Height]

\* mutant: compares against the geometry cached at construction
check_buffer_cached(buf, m, td) ==
  IF Len(buf) < calc_buffer_size(td) THEN Err(InvalidBufferLength)
  ELSE Ok(NoFrameInfo, "None")

\* Capturer::check_buffer, m being dxgi_outdupl_desc() read by the call
check_buffer(buf, m, td) ==
  IF Len(buf) < calc_buffer_size(m) THEN Err(InvalidBufferLength)
  ELSE Ok(NoFrameInfo, "None")

\* FrameInfoExt::pointer_shape_updated
pointer_shape_updated(fi) == fi.PointerShapeBufferSize > 0

\* FrameInfoExt::desktop_updated
desktop_updated(fi) == fi.LastPresentTime > 0

\* FrameInfoExt::mouse_updated of ext.rs, a MouseUpdateStatus
mouse_updated(fi) ==
  IF fi.LastMouseUpdateTime > 0
  THEN [position_updated |-> TRUE,
        shape_updated |-> fi.PointerShapeBufferSize > 0]
  ELSE [position_updated |-> FALSE, shape_updated |-> FALSE]

\* FrameInfoExt::mouse_updated of utils.rs, a bool
utils_mouse_updated(fi) == fi.LastMouseUpdateTime > 0


\* ------------------------------------------------------------ pixel bytes
\* byte c of row r of image f; padding bytes are negative, 0 is a zeroed byte
PixelByte(f, r, c) == f * 1000 + r * 100 + c + 1
PadByte(f, r, c) == 0 - (f * 1000 + r * 100 + c + 1)
Garbage == 0 - 1

\* the region Map exposes: Height rows of Pitch bytes each
MappedLen(td, pitch) == td.Height * pitch

\* byte at offset off from mapped_surface.pBits
SrcAt(f, td, pitch, off) ==
  IF off >= MappedLen(td, pitch) THEN Garbage
  ELSE LET r == off \div pitch
           c == off % pitch
       IN IF c < td.Width * BytesPerPixel THEN PixelByte(f, r, c)
          ELSE PadByte(f, r, c)

\* ptr::copy_nonoverlapping(pBits + src_offset, dest + dest_offset, n);
\* bytes that fall behind the end of dest land outside the buffer
CopyNonoverlapping(st, f, td, pitch, src_offset, dest_offset, n) ==
  [dest |-> [i \in 1..Len(st.dest) |->
               IF dest_offset <= i - 1 /\ i - 1 < dest_offset + n
               THEN SrcAt(f, td, pitch, src_offset + (i - 1 - dest_offset))
               ELSE st.dest[i]],
   wr_end |-> Max(st.wr_end, dest_offset + n),
   rd_end |-> Max(st.rd_end, src_offset + n),
   row_bytes |-> n]

\* the loop `for _ in 0..texture_desc.Height` of the slow path
RECURSIVE CopyRows(_, _, _, _, _, _, _)
CopyRows(st, f, td, pitch, row, src_offset, dest_offset) ==
  IF row >= td.Height THEN st
  ELSE CopyRows(CopyNonoverlapping(st, f, td, pitch, src_offset, dest_offset,
                                   pitch),
                f, td, pitch, row + 1,
                src_offset + pitch,
                dest_offset + td.Width * BytesPerPixel)

NoCopy == [wr_end |-> 0, rd_end |-> 0, row_bytes |-> 0]

\* mutant: the single block copy is used whatever the pitch
pixel_copy_block_only(dest, f, td, pitch) ==
  CopyNonoverlapping([dest |-> dest, wr_end |-> 0, rd_end |-> 0,
                      row_bytes |-> 0],
                     f, td, pitch, 0, 0, Len(dest))

\* the copy between Map and Unmap in capture(frame, dest, texture_desc)
pixel_copy(dest, f, td, pitch) ==
  LET bytes_per_line == td.Width * BytesPerPixel
      st0 == [dest |-> dest, wr_end |-> 0, rd_end |-> 0, row_bytes |-> 0]
  IN IF pitch = bytes_per_line
     THEN CopyNonoverlapping(st0, f, td, pitch, 0, 0, Len(dest))
     ELSE CopyRows(st0, f, td, pitch, 0, 0, 0)

\* the image in the wire format: row r at offset r*Width*4, no padding
PackedImage(f, td) ==
  [i \in 1..(td.Width * td.Height * BytesPerPixel) |->
     PixelByte(f, (i - 1) \div (td.Width * BytesPerPixel),
                  (i - 1) % (td.Width * BytesPerPixel))]

\* ----------------------------------------------------------- pointer shape
\* byte i of the pointer shape s; the driver's shapes are told apart by size
ShapeByte(s, i) == 50 + s * 10 + i

\* mutant: pointer_shape_buffer.resize(size, 0) whatever the length
resize_exact(psb, size) ==
  [i \in 1..size |-> IF i <= Len(psb) THEN psb[i] ELSE 0]

\* pointer_shape_buffer.resize(size, 0) when it is shorter than size
resize_up(psb, size) ==
  IF Len(psb) < size
  THEN [i \in 1..size |-> IF i <= Len(psb) THEN psb[i] ELSE 0]
  ELSE psb

\* GetFramePointerShape writes the shape of the held frame into the buffer
fill_shape(psb, f, size) ==
  [i \in 1..Len(psb) |-> IF i <= size THEN ShapeByte(size, i) ELSE psb[i]]

\* ------------------------------------------------------- driver responses
\* AcquireNextFrame, by the state of the duplication
AcquireOutcomes(d) ==
  IF d = "held" THEN {INVALID_CALL}
  ELSE IF d = "lost" THEN {ACCESS_LOST}
  ELSE {S_OK, WAIT_TIMEOUT, ACCESS_LOST}

\* ReleaseFrame, by the state of the duplication
ReleaseOutcomes(d) ==
  IF d = "held" THEN {S_OK, ACCESS_LOST}
  ELSE IF d = "lost" THEN {ACCESS_LOST}
  ELSE {INVALID_CALL}

\* GetFramePointerShape is valid only while a frame is held
ShapeOutcomes(d) == IF d = "held" THEN {S_OK, E_FAIL} ELSE {INVALID_CALL}

\* Map of the staging surface; a surface is mapped at most once
MapOutcomes(m) == IF m THEN {INVALID_CALL} ELSE {S_OK, E_FAIL}

\* Unmap of the staging surface
UnmapOutcomes(m) == IF m THEN {S_OK, E_FAIL} ELSE {INVALID_CALL}


\* ------------------------------------------------------------------- state
NoMap == [Pitch |-> 0]

\* the function-level and SharedCapturer variables while they are not in use
NoArg == [kind |-> "none"]
NoRet == [kind |-> "none"]
NoShared == [pointer_shape_buffer |-> <<>>, pointer_shape_buffer_size |-> 0,
             last_pointer_shape_buffer |-> <<>>,
             last_pointer_shape_buffer_size |-> 0]
NoDelivered == [latest |-> <<>>, prev |-> <<>>]

Init ==
  /\ mode \in Modes
  /\ dupl = "idle"
  /\ frame = 0
  /\ staging = 0
  /\ mapped = FALSE
  /\ buffer = <<>>
  /\ pointer_shape_buffer = <<>>
  /\ texture_desc = [Width |-> 0, Height |-> 0]
  /\ pc = "start"
  /\ op = "none"
  /\ frame_info = NoFrameInfo
  /\ pointer_shape_info = "None"
  /\ pending = NoErr
  /\ mapped_surface = NoMap
  /\ result = NoResult
  /\ calls = <<>>
  /\ pre = [buffer |-> <<>>, pointer_shape_buffer |-> <<>>, mode |-> mode]
  /\ copied = NoCopy
  /\ largest_shape = 0
  /\ arg = NoArg
  /\ ret = NoRet
  /\ shared = NoShared
  /\ delivered = NoDelivered
  /\ ShmOff /\ ScanOff /\ MultiOff /\ MgrOff

\* the call returns res to its caller; its locals are gone
Return(res) ==
  /\ pc' = "idle"
  /\ result' = res
  /\ frame_info' = NoFrameInfo
  /\ pointer_shape_info' = "None"
  /\ pending' = NoErr
  /\ mapped_surface' = NoMap
  /\ copied' = NoCopy

\* mutant: the Vec is reserved but never filled (Vec::with_capacity)
vec_with_capacity(n) == <<>>

\* `vec![0u8; dupl_desc.calc_buffer_size()]` of VecCapturer / SimpleCapturer
vec_zeroed(n) == [i \in 1..n |-> 0]

\* mutant: the buffer is allocated before the geometry query and the texture
new_buffer_first ==
  /\ pc = "start"
  /\ UNCHANGED <<largest_shape, hvars>>
  /\ op' = "new"
  /\ pre' = [buffer |-> buffer, pointer_shape_buffer |-> pointer_shape_buffer,
             mode |-> mode]
  /\ \E getdesc \in {S_OK, E_FAIL}, createtex \in {S_OK, E_FAIL},
        factory \in {S_OK, E_FAIL}, rotation \in Rotations :
       IF getdesc # S_OK
       THEN /\ calls' = << <<"buffer_factory", S_OK, calc_buffer_size(mode)>>,
                         <<"GetDesc", getdesc>> >>
            /\ pc' = "failed"
            /\ result' = Err(from_win_err(API_GETDESC, getdesc))
            /\ UNCHANGED <<buffer, texture_desc>>
       ELSE IF createtex # S_OK
       THEN /\ calls' = << <<"GetDesc", getdesc>>,
                         <<"CreateTexture2D", createtex>> >>
            /\ pc' = "failed"
            /\ result' = Err(from_win_err(API_CREATETEX, createtex))
            /\ UNCHANGED <<buffer, texture_desc>>
       ELSE IF factory # S_OK
       THEN /\ calls' = << <<"GetDesc", getdesc>>,
                         <<"CreateTexture2D", createtex>>,
                         <<"buffer_factory", factory, calc_buffer_size(mode)>> >>
            /\ pc' = "failed"
            /\ result' = Err(FactoryError)
            /\ UNCHANGED <<buffer, texture_desc>>
       ELSE /\ calls' = << <<"GetDesc", getdesc>>,
                         <<"CreateTexture2D", createtex>>,
                         <<"buffer_factory", factory, calc_buffer_size(mode)>> >>
            /\ pc' = "idle"
            /\ result' = Ok(NoFrameInfo, "None")
            /\ texture_desc' = create_texture_desc(mode, rotation)
            /\ buffer' = vec_zeroed(calc_buffer_size(mode))
  /\ pointer_shape_buffer' = <<>>
  /\ UNCHANGED <<mode, dupl, frame, staging, mapped, frame_info,
                 pointer_shape_info, pending, mapped_surface, copied>>

\* Capturer::new(monitor, buffer_factory) with the Vec<u8> factory
new ==
  /\ pc = "start"
  /\ UNCHANGED <<largest_shape, hvars>>
  /\ op' = "new"
  /\ pre' = [buffer |-> buffer, pointer_shape_buffer |-> pointer_shape_buffer,
             mode |-> mode]
  /\ \E getdesc \in {S_OK, E_FAIL}, createtex \in {S_OK, E_FAIL},
        factory \in {S_OK, E_FAIL}, rotation \in Rotations :
       IF getdesc # S_OK
       THEN /\ calls' = << <<"GetDesc", getdesc>> >>
            /\ pc' = "failed"
            /\ result' = Err(from_win_err(API_GETDESC, getdesc))
            /\ UNCHANGED <<buffer, texture_desc>>
       ELSE IF createtex # S_OK
       THEN /\ calls' = << <<"GetDesc", getdesc>>,
                         <<"CreateTexture2D", createtex>> >>
            /\ pc' = "failed"
            /\ result' = Err(from_win_err(API_CREATETEX, createtex))
            /\ UNCHANGED <<buffer, texture_desc>>
       ELSE IF factory # S_OK
       THEN /\ calls' = << <<"GetDesc", getdesc>>,
                         <<"CreateTexture2D", createtex>>,
                         <<"buffer_factory", factory, calc_buffer_size(mode)>> >>
            /\ pc' = "failed"
            /\ result' = Err(FactoryError)
            /\ UNCHANGED <<buffer, texture_desc>>
       ELSE /\ calls' = << <<"GetDesc", getdesc>>,
                         <<"CreateTexture2D", createtex>>,
                         <<"buffer_factory", factory, calc_buffer_size(mode)>> >>
            /\ pc' = "idle"
            /\ result' = Ok(NoFrameInfo, "None")
            /\ texture_desc' = create_texture_desc(mode, rotation)
            /\ buffer' = vec_zeroed(calc_buffer_size(mode))
  /\ pointer_shape_buffer' = <<>>
  /\ UNCHANGED <<mode, dupl, frame, staging, mapped, frame_info,
                 pointer_shape_info, pending, mapped_surface, copied>>

\* the output changes its mode (resolution) between two calls; what the last
\* call returned is no longer looked at
ModeChange ==
  /\ pc = "idle"
  /\ UNCHANGED <<largest_shape, hvars>>
  /\ \E m \in Modes : m # mode /\ mode' = m
  /\ op' = "none"
  /\ result' = NoResult
  /\ calls' = <<>>
  /\ pre' = [buffer |-> buffer, pointer_shape_buffer |-> pointer_shape_buffer,
             mode |-> mode']
  /\ UNCHANGED <<dupl, frame, staging, mapped, buffer,
                 pointer_shape_buffer, texture_desc, pc, frame_info,
                 pointer_shape_info, pending, mapped_surface, copied>>

\* entry of one of the four capture methods; checked ones run check_buffer
Enter(o, checked) ==
  /\ pc = "idle"
  /\ UNCHANGED <<largest_shape, hvars>>
  /\ op' = o
  /\ calls' = <<>>
  /\ pre' = [buffer |-> buffer, pointer_shape_buffer |-> pointer_shape_buffer,
             mode |-> mode]
  /\ copied' = NoCopy
  /\ IF checked /\ check_buffer(buffer, mode, texture_desc).tag = "Err"
     THEN /\ pc' = "idle"
          /\ result' = check_buffer(buffer, mode, texture_desc)
     ELSE /\ pc' = "acquire"
          /\ result' = NoResult
  /\ UNCHANGED <<mode, dupl, frame, staging, mapped, buffer,
                 pointer_shape_buffer, texture_desc, frame_info,
                 pointer_shape_info, pending, mapped_surface>>

\* Capturer::check_buffer called on its own
CheckBuffer ==
  /\ pc = "idle"
  /\ UNCHANGED <<largest_shape, hvars>>
  /\ op' = "check_buffer"
  /\ calls' = <<>>
  /\ pre' = [buffer |-> buffer, pointer_shape_buffer |-> pointer_shape_buffer,
             mode |-> mode]
  /\ copied' = NoCopy
  /\ result' = check_buffer(buffer, mode, texture_desc)
  /\ UNCHANGED <<mode, dupl, frame, staging, mapped, buffer,
                 pointer_shape_buffer, texture_desc, pc, frame_info,
                 pointer_shape_info, pending, mapped_surface>>

\* mutant: capture refuses a buffer of exactly the required length
capture_check_le ==
  /\ pc = "idle"
  /\ UNCHANGED <<largest_shape, hvars>>
  /\ op' = "capture"
  /\ calls' = <<>>
  /\ pre' = [buffer |-> buffer, pointer_shape_buffer |-> pointer_shape_buffer,
             mode |-> mode]
  /\ copied' = NoCopy
  /\ IF Len(buffer) <= calc_buffer_size(mode)
     THEN /\ pc' = "idle"
          /\ result' = Err(InvalidBufferLength)
     ELSE /\ pc' = "acquire"
          /\ result' = NoResult
  /\ UNCHANGED <<mode, dupl, frame, staging, mapped, buffer,
                 pointer_shape_buffer, texture_desc, frame_info,
                 pointer_shape_info, pending, mapped_surface>>

\* mutant: capture goes straight to capture_unchecked
capture_no_check == Enter("capture", FALSE)

\* Capturer::capture
capture == Enter("capture", TRUE)

\* Capturer::capture_unchecked
capture_unchecked == Enter("capture_unchecked", FALSE)

\* mutant: capture_with_pointer_shape goes straight to the unchecked variant
capture_with_pointer_shape_no_check == Enter("capture_with_pointer_shape", FALSE)

\* Capturer::capture_with_pointer_shape
capture_with_pointer_shape == Enter("capture_with_pointer_shape", TRUE)

\* Capturer::capture_with_pointer_shape_unchecked
capture_with_pointer_shape_unchecked ==
  Enter("capture_with_pointer_shape_unchecked", FALSE)

WithShape(o) ==
  o \in {"capture_with_pointer_shape", "capture_with_pointer_shape_unchecked"}


\* -------------------------------------------------- Monitor: frame protocol
\* mutant: a failed acquire is followed by release_frame like a successful one
AcquireNextFrame_release_on_error ==
  /\ pc = "acquire"
  /\ UNCHANGED <<largest_shape, hvars>>
  /\ \E hr \in AcquireOutcomes(dupl) :
       /\ calls' = Append(calls, <<"AcquireNextFrame", hr>>)
       /\ IF hr = S_OK
          THEN /\ \E fi \in FrameInfos : frame_info' = fi
               /\ dupl' = "held"
               /\ \E img \in 1..NumFrames : frame' = img
               /\ pc' = "copy_resource"
               /\ UNCHANGED pending
          ELSE /\ dupl' = IF hr = ACCESS_LOST THEN "lost" ELSE dupl
               /\ pending' = from_win_err(API_ACQUIRE, hr)
               /\ pc' = "release"
               /\ UNCHANGED <<frame, frame_info>>
  /\ UNCHANGED <<mode, staging, mapped, buffer, pointer_shape_buffer,
                 texture_desc, op, pre, result, pointer_shape_info,
                 mapped_surface, copied>>

\* mutant: a timed-out acquire is issued again instead of being returned
AcquireNextFrame_retry ==
  /\ pc = "acquire"
  /\ UNCHANGED <<largest_shape, hvars>>
  /\ \E hr \in AcquireOutcomes(dupl) :
       /\ calls' = Append(calls, <<"AcquireNextFrame", hr>>)
       /\ IF hr = S_OK
          THEN /\ \E fi \in FrameInfos : frame_info' = fi
               /\ dupl' = "held"
               /\ \E img \in 1..NumFrames : frame' = img
               /\ pc' = "copy_resource"
               /\ UNCHANGED <<result, pointer_shape_info, pending, mapped_surface,
                              copied>>
          ELSE /\ dupl' = IF hr = ACCESS_LOST THEN "lost" ELSE dupl
               /\ UNCHANGED frame
               /\ IF hr = WAIT_TIMEOUT
                  THEN UNCHANGED <<pc, result, frame_info, pointer_shape_info,
                                   pending, mapped_surface, copied>>
                  ELSE Return(Err(from_win_err(API_ACQUIRE, hr)))
  /\ UNCHANGED <<mode, staging, mapped, buffer, pointer_shape_buffer,
                 texture_desc, op, pre>>

\* Monitor::acquire_next_frame, the AcquireNextFrame call and its `?`
AcquireNextFrame ==
  /\ pc = "acquire"
  /\ UNCHANGED <<largest_shape, hvars>>
  /\ \E hr \in AcquireOutcomes(dupl) :
       /\ calls' = Append(calls, <<"AcquireNextFrame", hr>>)
       /\ IF hr = S_OK
          THEN /\ \E fi \in FrameInfos : frame_info' = fi
               /\ dupl' = "held"
               /\ \E img \in 1..NumFrames : frame' = img
               /\ pc' = "copy_resource"
               /\ UNCHANGED <<result, pointer_shape_info, pending, mapped_surface,
                              copied>>
          ELSE /\ dupl' = IF hr = ACCESS_LOST THEN "lost" ELSE dupl
               /\ UNCHANGED frame
               /\ Return(Err(from_win_err(API_ACQUIRE, hr)))
  /\ UNCHANGED <<mode, staging, mapped, buffer, pointer_shape_buffer,
                 texture_desc, op, pre>>

\* mutant: next_frame hands the surface on without release_frame
CopyResource_no_release ==
  /\ pc = "copy_resource"
  /\ UNCHANGED <<largest_shape, hvars>>
  /\ calls' = Append(calls, <<"CopyResource", S_OK>>)
  /\ staging' = frame
  /\ pc' = IF WithShape(op) THEN "shape" ELSE "map"
  /\ UNCHANGED <<mode, dupl, frame, mapped, buffer,
                 pointer_shape_buffer, texture_desc, op, frame_info,
                 pointer_shape_info, pending, mapped_surface, result, pre,
                 copied>>

\* Monitor::acquire_next_frame, the CopyResource into the readable texture,
\* returning into next_frame / next_frame_with_pointer_shape
CopyResource ==
  /\ pc = "copy_resource"
  /\ UNCHANGED <<largest_shape, hvars>>
  /\ calls' = Append(calls, <<"CopyResource", S_OK>>)
  /\ staging' = frame
  /\ pc' = IF WithShape(op) THEN "shape" ELSE "release"
  /\ UNCHANGED <<mode, dupl, frame, mapped, buffer,
                 pointer_shape_buffer, texture_desc, op, frame_info,
                 pointer_shape_info, pending, mapped_surface, result, pre,
                 copied>>

\* mutant: the shape is fetched for every acquired frame
ShapeCheck_always ==
  /\ pc = "shape"
  /\ UNCHANGED hvars
  /\ pointer_shape_buffer' =
       resize_up(pointer_shape_buffer, frame_info.PointerShapeBufferSize)
  /\ largest_shape' = Max(largest_shape, frame_info.PointerShapeBufferSize)
  /\ pc' = "get_shape"
  /\ UNCHANGED <<mode, dupl, frame, staging, mapped, buffer,
                 texture_desc, op, frame_info, pointer_shape_info, pending,
                 mapped_surface, result, calls, pre, copied>>

\* mutant: a frame without a new shape empties the pointer shape buffer
ShapeCheck_clear_on_no_update ==
  /\ pc = "shape"
  /\ UNCHANGED hvars
  /\ IF ~pointer_shape_updated(frame_info)
     THEN /\ pc' = "release"
          /\ pointer_shape_buffer' = <<>>
          /\ UNCHANGED largest_shape
     ELSE /\ pointer_shape_buffer' =
               resize_up(pointer_shape_buffer, frame_info.PointerShapeBufferSize)
          /\ largest_shape' =
               Max(largest_shape, frame_info.PointerShapeBufferSize)
          /\ pc' = "get_shape"
  /\ UNCHANGED <<mode, dupl, frame, staging, mapped, buffer,
                 texture_desc, op, frame_info, pointer_shape_info, pending,
                 mapped_surface, result, calls, pre, copied>>

\* Monitor::next_frame_with_pointer_shape: the pointer_shape_updated test and
\* the resize of the pointer shape buffer
ShapeCheck ==
  /\ pc = "shape"
  /\ UNCHANGED hvars
  /\ IF ~pointer_shape_updated(frame_info)
     THEN /\ pc' = "release"
          /\ UNCHANGED <<pointer_shape_buffer, largest_shape>>
     ELSE /\ pointer_shape_buffer' =
               resize_up(pointer_shape_buffer, frame_info.PointerShapeBufferSize)
          /\ largest_shape' =
               Max(largest_shape, frame_info.PointerShapeBufferSize)
          /\ pc' = "get_shape"
  /\ UNCHANGED <<mode, dupl, frame, staging, mapped, buffer,
                 texture_desc, op, frame_info, pointer_shape_info, pending,
                 mapped_surface, result, calls, pre, copied>>

\* mutant: a fetched shape is not reported, Ok((frame_info, None))
GetFramePointerShape_no_info ==
  /\ pc = "get_shape"
  /\ UNCHANGED <<largest_shape, hvars>>
  /\ \E hr \in ShapeOutcomes(dupl) :
       /\ calls' = Append(calls, <<"GetFramePointerShape", hr>>)
       /\ IF hr = S_OK
          THEN /\ pointer_shape_buffer' =
                    fill_shape(pointer_shape_buffer, frame,
                               frame_info.PointerShapeBufferSize)
               /\ pointer_shape_info' = "None"
               /\ UNCHANGED pending
          ELSE /\ pending' = from_win_err(API_SHAPE, hr)
               /\ UNCHANGED <<pointer_shape_buffer, pointer_shape_info>>
  /\ pc' = "release"
  /\ UNCHANGED <<mode, dupl, frame, staging, mapped, buffer,
                 texture_desc, op, frame_info, mapped_surface, result, pre,
                 copied>>

\* Monitor::next_frame_with_pointer_shape: the GetFramePointerShape call;
\* both match arms go on to release_frame
GetFramePointerShape ==
  /\ pc = "get_shape"
  /\ UNCHANGED <<largest_shape, hvars>>
  /\ \E hr \in ShapeOutcomes(dupl) :
       /\ calls' = Append(calls, <<"GetFramePointerShape", hr>>)
       /\ IF hr = S_OK
          THEN /\ pointer_shape_buffer' =
                    fill_shape(pointer_shape_buffer, frame,
                               frame_info.PointerShapeBufferSize)
               /\ pointer_shape_info' = "Some"
               /\ UNCHANGED pending
          ELSE /\ pending' = from_win_err(API_SHAPE, hr)
               /\ UNCHANGED <<pointer_shape_buffer, pointer_shape_info>>
  /\ pc' = "release"
  /\ UNCHANGED <<mode, dupl, frame, staging, mapped, buffer,
                 texture_desc, op, frame_info, mapped_surface, result, pre,
                 copied>>

\* mutant: the frame is still held when the staging texture is mapped
ReleaseFrame_deferred ==
  /\ pc = "release"
  /\ UNCHANGED <<largest_shape, hvars>>
  /\ IF pending # NoErr
     THEN Return(Err(pending))
     ELSE /\ pc' = "map"
          /\ UNCHANGED <<result, frame_info, pointer_shape_info,
                         pending, mapped_surface, copied>>
  /\ UNCHANGED <<mode, dupl, frame, staging, mapped, buffer, calls,
                 pointer_shape_buffer, texture_desc, op, pre>>

\* Monitor::release_frame and the `?` / Err(e) that follows it in next_frame
\* and next_frame_with_pointer_shape
ReleaseFrame ==
  /\ pc = "release"
  /\ UNCHANGED <<largest_shape, hvars>>
  /\ \E hr \in ReleaseOutcomes(dupl) :
       /\ calls' = Append(calls, <<"ReleaseFrame", hr>>)
       /\ IF hr = S_OK
          THEN /\ dupl' = "idle"
               /\ frame' = 0
               /\ IF pending # NoErr
                  THEN Return(Err(pending))
                  ELSE /\ pc' = "map"
                       /\ UNCHANGED <<result, frame_info, pointer_shape_info,
                                      pending, mapped_surface, copied>>
          ELSE /\ dupl' = IF hr = ACCESS_LOST THEN "lost" ELSE dupl
               /\ frame' = IF hr = ACCESS_LOST THEN 0 ELSE frame
               /\ Return(Err(from_win_err(API_RELEASE, hr)))
  /\ UNCHANGED <<mode, staging, mapped, buffer,
                 pointer_shape_buffer, texture_desc, op, pre>>


\* ------------------------------------------------- capture(): map/copy/unmap
\* IDXGISurface1::Map of the staging texture and its `?`
Map ==
  /\ pc = "map"
  /\ UNCHANGED <<largest_shape, hvars>>
  /\ \E hr \in MapOutcomes(mapped) :
       /\ calls' = Append(calls, <<"Map", hr>>)
       /\ IF hr = S_OK
          THEN /\ mapped' = TRUE
               /\ \E pad \in Pads :
                    mapped_surface' =
                      [Pitch |-> texture_desc.Width * BytesPerPixel + pad]
               /\ pc' = "copy"
               /\ UNCHANGED <<result, frame_info, pointer_shape_info, pending,
                              copied>>
          ELSE /\ UNCHANGED mapped
               /\ Return(Err(from_win_err(API_MAP, hr)))
  /\ UNCHANGED <<mode, dupl, frame, staging, buffer,
                 pointer_shape_buffer, texture_desc, op, pre>>

\* the copy ran outside the buffer or outside the mapped region
OutOfBounds(c, buf, td, pitch) ==
  c.wr_end > Len(buf) \/ c.rd_end > MappedLen(td, pitch)

\* mutant: the function returns after the copy, the surface stays mapped
Copy_no_unmap ==
  /\ pc = "copy"
  /\ UNCHANGED <<largest_shape, hvars>>
  /\ calls' = Append(calls, <<"copy", S_OK>>)
  /\ buffer' = pixel_copy(buffer, staging, texture_desc,
                          mapped_surface.Pitch).dest
  /\ Return(Ok(frame_info, pointer_shape_info))
  /\ UNCHANGED <<mode, dupl, frame, staging, mapped,
                 pointer_shape_buffer, texture_desc, op, pre>>

\* the pixel copy of capture(): one block when Pitch == bytes_per_line, row
\* by row otherwise.  A copy that leaves the buffer or the mapped region is
\* undefined behaviour: the bytes land next to the buffer, or the process
\* dies.
Copy ==
  /\ pc = "copy"
  /\ UNCHANGED <<largest_shape, hvars>>
  /\ calls' = Append(calls, <<"copy", S_OK>>)
  /\ LET c == pixel_copy(buffer, staging, texture_desc, mapped_surface.Pitch)
     IN /\ buffer' = c.dest
        /\ copied' = [wr_end |-> c.wr_end, rd_end |-> c.rd_end,
                      row_bytes |-> c.row_bytes]
        /\ pc' \in IF OutOfBounds(c, buffer, texture_desc, mapped_surface.Pitch)
                   THEN {"unmap", "crashed"}
                   ELSE {"unmap"}
  /\ UNCHANGED <<mode, dupl, frame, staging, mapped,
                 pointer_shape_buffer, texture_desc, op, frame_info,
                 pointer_shape_info, pending, mapped_surface, result, pre>>

\* IDXGISurface1::Unmap and the return of the capture call; the mapping ends
\* with the call, whose failure is only reported
Unmap ==
  /\ pc = "unmap"
  /\ UNCHANGED <<largest_shape, hvars>>
  /\ mapped' = FALSE
  /\ \E hr \in UnmapOutcomes(mapped) :
       /\ calls' = Append(calls, <<"Unmap", hr>>)
       /\ IF hr = S_OK
          THEN Return(Ok(frame_info, pointer_shape_info))
          ELSE Return(Err(from_win_err(API_UNMAP, hr)))
  /\ UNCHANGED <<mode, dupl, frame, staging, buffer,
                 pointer_shape_buffer, texture_desc, op, pre>>

Next ==
  \/ new
  \/ ModeChange
  \/ CheckBuffer
  \/ capture
  \/ capture_unchecked
  \/ capture_with_pointer_shape
  \/ capture_with_pointer_shape_unchecked
  \/ AcquireNextFrame
  \/ CopyResource
  \/ ShapeCheck
  \/ GetFramePointerShape
  \/ ReleaseFrame
  \/ Map
  \/ Copy
  \/ Unmap

Spec == Init /\ [][Next]_vars

TypeOK ==
  /\ mode \in Modes
  /\ dupl \in {"idle", "held", "lost"}
  /\ pc \in {"start", "failed", "idle", "acquire", "copy_resource", "shape",
             "get_shape", "release", "map", "copy", "unmap", "crashed"}
  /\ mapped \in BOOLEAN


\* ------------------------------------------------------ reading the call log
Count(log, name) == Cardinality({i \in DOMAIN log : log[i][1] = name})
Issued(name) == \E i \in DOMAIN calls : calls[i][1] = name
Answered(name, hr) ==
  \E i \in DOMAIN calls : calls[i][1] = name /\ calls[i][2] = hr
BytesPerLine == texture_desc.Width * BytesPerPixel
TextureBytes == texture_desc.Width * texture_desc.Height * BytesPerPixel

\* C1: every successful AcquireNextFrame is followed by exactly one
\* ReleaseFrame before the next AcquireNextFrame is issued, and ReleaseFrame
\* is never issued when no frame is held (not after a failed or timed-out
\* acquire).
C1_AcquireReleaseProtocol ==
  /\ pc = "acquire" => dupl # "held"
  /\ pc = "release" => dupl = "held" /\ Answered("AcquireNextFrame", S_OK)
  /\ pc \in {"idle", "map", "copy", "unmap", "crashed"} =>
       /\ dupl # "held"
       /\ Count(calls, "ReleaseFrame") =
            IF Answered("AcquireNextFrame", S_OK) THEN 1 ELSE 0
  /\ ~Answered("ReleaseFrame", INVALID_CALL)
  /\ ~Answered("AcquireNextFrame", INVALID_CALL)

C1_Witness ==
  /\ pc = "map"
  /\ dupl = "idle"
  /\ calls = << <<"AcquireNextFrame", S_OK>>, <<"CopyResource", S_OK>>,
                <<"ReleaseFrame", S_OK>> >>

\* C2: check_buffer returns Err(InvalidBufferLength) if and only if the
\* buffer's length is strictly less than width*height*4 of the duplication
\* mode read by the call; otherwise it returns Ok.
C2_CheckBufferIffTooSmall ==
  (pc = "idle" /\ op = "check_buffer") =>
    IF Len(buffer) < pre.mode.Width * pre.mode.Height * 4
    THEN result = Err(InvalidBufferLength)
    ELSE result.tag = "Ok"

C2_Witness ==
  /\ pc = "idle"
  /\ op = "check_buffer"
  /\ result = Err(InvalidBufferLength)
  /\ Len(buffer) = TextureBytes
  /\ pre.mode.Width * pre.mode.Height > texture_desc.Width * texture_desc.Height

\* C3: capture() and capture_with_pointer_shape() run check_buffer first:
\* with a buffer that is too small they return InvalidBufferLength, issue no
\* AcquireNextFrame and no Map, and leave the frame buffer and the
\* pointer-shape buffer unchanged.
C3_CheckedCaptureRejectsSmallBuffer ==
  ( /\ op \in {"capture", "capture_with_pointer_shape"}
    /\ Len(pre.buffer) < pre.mode.Width * pre.mode.Height * 4 ) =>
      /\ pc = "idle"
      /\ result = Err(InvalidBufferLength)
      /\ calls = <<>>
      /\ ~mapped
      /\ buffer = pre.buffer
      /\ pointer_shape_buffer = pre.pointer_shape_buffer

C3_Witness ==
  /\ pc = "idle"
  /\ op = "capture_with_pointer_shape"
  /\ result = Err(InvalidBufferLength)
  /\ Len(pointer_shape_buffer) > 0
  /\ \E i \in DOMAIN buffer : buffer[i] # 0

\* C4: for every pitch >= width*4, the pixel copy of a padded source and of
\* an unpadded source holding the same image leave the same bytes in
\* [0, width*height*4): row r of the image at offset r*width*4, no padding.
C4_PaddedEqualsUnpadded ==
  pc = "unmap" =>
    /\ Len(buffer) >= TextureBytes
    /\ SubSeq(buffer, 1, TextureBytes) = PackedImage(staging, texture_desc)

C4_Witness ==
  /\ pc = "unmap"
  /\ mapped_surface.Pitch > BytesPerLine
  /\ texture_desc.Height > 1
  /\ SubSeq(buffer, 1, TextureBytes) = PackedImage(staging, texture_desc)

\* C5: in the slow path (pitch != width*4) each of the height row copies
\* writes exactly width*4 bytes at offset row*width*4, so with a destination
\* of exactly width*height*4 bytes every write lies in [0, width*height*4)
\* and every read lies inside the mapped region of height*pitch bytes.
C5_SlowPathStaysInBounds ==
  ( /\ pc \in {"unmap", "crashed"}
    /\ mapped_surface.Pitch # BytesPerLine
    /\ Len(buffer) = TextureBytes ) =>
      /\ copied.row_bytes = BytesPerLine
      /\ copied.wr_end <= TextureBytes
      /\ copied.rd_end <= MappedLen(texture_desc, mapped_surface.Pitch)


\* C6: the staging surface is mapped before any byte is copied and unmapped
\* after the last one; on every path on which Map succeeded Unmap is called
\* exactly once before the call returns, when Map fails neither a copy nor an
\* Unmap is performed, and the texture is never left mapped at return.
C6_MapCopyUnmap ==
  /\ pc \in {"copy", "unmap"} => mapped
  /\ pc \in {"start", "failed", "idle", "acquire", "copy_resource", "shape",
             "get_shape", "release", "map"} => ~mapped
  /\ ~Answered("Map", INVALID_CALL) /\ ~Answered("Unmap", INVALID_CALL)
  /\ pc = "idle" =>
       IF Answered("Map", S_OK)
       THEN /\ Count(calls, "copy") = 1
            /\ Count(calls, "Unmap") = 1
            /\ Len(calls) >= 3
            /\ calls[Len(calls) - 2] = <<"Map", S_OK>>
            /\ calls[Len(calls) - 1] = <<"copy", S_OK>>
            /\ calls[Len(calls)][1] = "Unmap"
       ELSE /\ Count(calls, "copy") = 0
            /\ Count(calls, "Unmap") = 0
            /\ op # "new" => buffer = pre.buffer

C6_Witness ==
  /\ pc = "idle"
  /\ result.tag = "Ok"
  /\ Answered("Map", S_OK)
  /\ Answered("Unmap", S_OK)
  /\ ~mapped
  /\ buffer # pre.buffer

\* C7: when AcquireNextFrame times out the call returns an error, issues
\* neither CopyResource nor ReleaseFrame nor Map, leaves the frame buffer and
\* the pointer-shape buffer unchanged and the session with no frame held, so
\* that a later capture call can succeed.
C7_TimeoutLeavesNoTrace ==
  Answered("AcquireNextFrame", WAIT_TIMEOUT) =>
    /\ pc = "idle"
    /\ result.tag = "Err"
    /\ calls = << <<"AcquireNextFrame", WAIT_TIMEOUT>> >>
    /\ buffer = pre.buffer
    /\ pointer_shape_buffer = pre.pointer_shape_buffer
    /\ dupl = "idle"
    /\ ~mapped
    /\ S_OK \in AcquireOutcomes(dupl)

C7_Witness ==
  /\ pc = "idle"
  /\ op = "capture_with_pointer_shape"
  /\ Answered("AcquireNextFrame", WAIT_TIMEOUT)
  /\ result.tag = "Err"
  /\ \E i \in DOMAIN buffer : buffer[i] # 0

\* the codes a failing AcquireNextFrame can carry
AcquireFailCodes == {WAIT_TIMEOUT, ACCESS_LOST, INVALID_CALL, E_FAIL}

\* C8: the error value returned for an acquire timeout differs from the one
\* returned for access-lost and for any other driver failure: the returned
\* error carries the driver's code, so acquire failures with different codes
\* never produce equal error values.
C8_AcquireErrorsDistinct ==
  /\ \A hr \in AcquireFailCodes :
       (pc = "idle" /\ Answered("AcquireNextFrame", hr)) =>
         /\ result.tag = "Err"
         /\ result.err.kind = "Windows"
         /\ result.err.code = hr
         /\ \A other \in AcquireFailCodes \ {hr} :
              result.err # from_win_err(API_ACQUIRE, other)
  /\ (pc = "idle" /\ result.tag = "Err" /\ result.err.api = API_ACQUIRE) =>
       Answered("AcquireNextFrame", result.err.code)

C8_Witness ==
  /\ pc = "idle"
  /\ Answered("AcquireNextFrame", ACCESS_LOST)
  /\ result.err = [kind |-> "Windows", api |-> API_ACQUIRE, code |-> ACCESS_LOST]
  /\ result.err # [kind |-> "Windows", api |-> API_ACQUIRE, code |-> WAIT_TIMEOUT]

\* C9: no automatic retry: every call of capture, capture_unchecked,
\* capture_with_pointer_shape or its unchecked variant issues
\* AcquireNextFrame at most once, and not at all when check_buffer fails.
C9_AtMostOneAcquirePerCall ==
  /\ Count(calls, "AcquireNextFrame") <= 1
  /\ (pc = "idle" /\ result = Err(InvalidBufferLength)) =>
       Count(calls, "AcquireNextFrame") = 0
  /\ pc \notin {"start", "failed", "idle", "acquire"} =>
       Count(calls, "AcquireNextFrame") = 1

C9_Witness ==
  /\ pc = "idle"
  /\ op = "capture_unchecked"
  /\ calls = << <<"AcquireNextFrame", ACCESS_LOST>> >>
  /\ dupl = "lost"

\* first position of a call in the log (0: not issued)
IndexOf(name) ==
  IF Issued(name)
  THEN CHOOSE i \in DOMAIN calls :
         calls[i][1] = name /\ \A j \in 1..(i - 1) : calls[j][1] # name
  ELSE 0

\* C10: GetFramePointerShape is called only while the acquired frame is
\* still held (after the successful AcquireNextFrame, before the ReleaseFrame
\* of the same capture) and never for a frame whose pointer shape was not
\* updated (PointerShapeBufferSize = 0).
C10_ShapeFetchedWhileHeld ==
  /\ pc = "get_shape" =>
       dupl = "held" /\ frame_info.PointerShapeBufferSize > 0
  /\ Count(calls, "GetFramePointerShape") <= 1
  /\ Issued("GetFramePointerShape") =>
       /\ ~Answered("GetFramePointerShape", INVALID_CALL)
       /\ IndexOf("AcquireNextFrame") < IndexOf("GetFramePointerShape")
       /\ Answered("AcquireNextFrame", S_OK)
       /\ Issued("ReleaseFrame") =>
            IndexOf("GetFramePointerShape") < IndexOf("ReleaseFrame")
       /\ pc # "idle" => frame_info.PointerShapeBufferSize > 0
       /\ (pc = "idle" /\ result.tag = "Ok") =>
            result.frame_info.PointerShapeBufferSize > 0

C10_Witness ==
  /\ pc = "release"
  /\ dupl = "held"
  /\ calls = << <<"AcquireNextFrame", S_OK>>, <<"CopyResource", S_OK>>,
                <<"GetFramePointerShape", S_OK>> >>
  /\ pointer_shape_info = "Some"


C12_MouseUpdatedGivesSome ==
  (/\ pc = "idle"
   /\ WithShape(op)
   /\ result.tag = "Ok"
   /\ result.frame_info.LastMouseUpdateTime # 0) =>
    result.pointer_shape_info = "Some"

\* C13: across the capture_with_pointer_shape calls of one Capturer the
\* length of the pointer shape buffer never decreases; after a call that
\* fetched a shape it is at least that frame's PointerShapeBufferSize, and
\* it equals the largest shape size seen so far.
C13_ShapeBufferOnlyGrows ==
  /\ [](/\ Len(pointer_shape_buffer) = largest_shape
        /\ Issued("GetFramePointerShape") =>
             /\ Len(pointer_shape_buffer) >= Len(pre.pointer_shape_buffer)
             /\ pc # "idle" =>
                  Len(pointer_shape_buffer) >= frame_info.PointerShapeBufferSize
             /\ (pc = "idle" /\ result.tag = "Ok") =>
                  Len(pointer_shape_buffer) >=
                    result.frame_info.PointerShapeBufferSize)
  /\ [][Len(pointer_shape_buffer') >= Len(pointer_shape_buffer)]_vars

C13_Witness ==
  /\ pc = "idle"
  /\ result.tag = "Ok"
  /\ Answered("GetFramePointerShape", S_OK)
  /\ result.frame_info.PointerShapeBufferSize = 1
  /\ Len(pre.pointer_shape_buffer) = 2
  /\ Len(pointer_shape_buffer) = 2


\* C20: Capturer::new creates the staging texture before the buffer: the
\* buffer factory is invoked at most once, with calc_buffer_size of the mode
\* read in the same call, and only after the geometry query and the texture
\* creation succeeded; if either fails new returns that error and the factory
\* is never invoked; if the factory fails new returns its error; on success
\* the pointer shape buffer is empty.
C20_NewTextureBeforeBuffer ==
  (op = "new" /\ pc \in {"idle", "failed"}) =>
    /\ Count(calls, "buffer_factory") <= 1
    /\ Issued("buffer_factory") =>
         /\ Len(calls) = 3
         /\ calls[1] = <<"GetDesc", S_OK>>
         /\ calls[2] = <<"CreateTexture2D", S_OK>>
         /\ calls[3][1] = "buffer_factory"
         /\ calls[3][3] = calc_buffer_size(mode)
         /\ calls[3][3] = mode.Width * mode.Height * BytesPerPixel
    /\ \A hr \in {E_FAIL} :
         /\ Answered("GetDesc", hr) =>
              /\ result = Err(from_win_err(API_GETDESC, hr))
              /\ ~Issued("buffer_factory") /\ ~Issued("CreateTexture2D")
         /\ Answered("CreateTexture2D", hr) =>
              /\ result = Err(from_win_err(API_CREATETEX, hr))
              /\ ~Issued("buffer_factory")
         /\ Answered("buffer_factory", hr) => result = Err(FactoryError)
    /\ result.tag = "Ok" <=> Answered("buffer_factory", S_OK)
    /\ result.tag = "Ok" <=> pc = "idle"
    /\ result.tag = "Ok" =>
         /\ pointer_shape_buffer = <<>>
         /\ Len(buffer) = calc_buffer_size(mode)

C20_Witness ==
  /\ op = "new"
  /\ pc = "failed"
  /\ result = Err(FactoryError)
  /\ calls[3] = <<"buffer_factory", E_FAIL, calc_buffer_size(mode)>>
  /\ mode.Width * mode.Height = MaxPixels

\* C21: right after a successful construction the heap-backed capturer
\* (VecCapturer / SimpleCapturer) owns a buffer of exactly width * height * 4
\* bytes of the duplication mode (8,294,400 for 1920 x 1080), every byte is
\* zero, and check_buffer succeeds as long as the mode has not changed.
C21_FreshBufferZeroedAndExact ==
  (op = "new" /\ pc = "idle") =>
    /\ Len(buffer) = mode.Width * mode.Height * 4
    /\ \A i \in 1..Len(buffer) : buffer[i] = 0
    /\ check_buffer(buffer, mode, texture_desc).tag = "Ok"
    /\ mode = pre.mode
    /\ calc_buffer_size([Width |-> 1920, Height |-> 1080]) = 8294400

C21_Witness ==
  /\ op = "new"
  /\ pc = "idle"
  /\ result.tag = "Ok"
  /\ Len(buffer) = MaxPixels * 4

\* C26: when capture_with_pointer_shape acquires a frame that carries no mouse
\* update (LastMouseUpdateTime = 0 and PointerShapeBufferSize = 0), the call
\* never issues GetFramePointerShape, leaves the pointer shape buffer as it
\* was before the call, and a successful call returns None as shape info.
C26_NoMouseUpdateNoShape ==
  /\ (/\ WithShape(op)
      /\ pc \in {"copy_resource", "shape", "get_shape", "release", "map",
                 "copy", "unmap"}
      /\ frame_info.LastMouseUpdateTime = 0
      /\ frame_info.PointerShapeBufferSize = 0) =>
       /\ ~Issued("GetFramePointerShape")
       /\ pc # "get_shape"
       /\ pointer_shape_buffer = pre.pointer_shape_buffer
       /\ pointer_shape_info = "None"
  /\ (/\ WithShape(op)
      /\ pc = "idle"
      /\ result.tag = "Ok"
      /\ result.frame_info.LastMouseUpdateTime = 0
      /\ result.frame_info.PointerShapeBufferSize = 0) =>
       /\ ~Issued("GetFramePointerShape")
       /\ pointer_shape_buffer = pre.pointer_shape_buffer
       /\ result.pointer_shape_info = "None"

C26_Witness ==
  /\ WithShape(op)
  /\ pc = "idle"
  /\ result.tag = "Ok"
  /\ Answered("AcquireNextFrame", S_OK)
  /\ result.frame_info.LastMouseUpdateTime = 0
  /\ result.frame_info.PointerShapeBufferSize = 0
  /\ Len(pointer_shape_buffer) = MaxShapeSize
  /\ Issued("Unmap")

\* C30: within one capture call CopyResource is issued while the frame is
\* held, after the successful AcquireNextFrame and before ReleaseFrame, and it
\* copies the held frame; Map and the pixel copy into the buffer happen only
\* after the frame has been released.
C30_CopyWhileHeldMapAfterRelease ==
  /\ pc = "copy_resource" => dupl = "held" /\ frame # 0
  /\ pc \in {"map", "copy", "unmap"} => dupl = "idle" /\ frame = 0
  /\ \A i \in DOMAIN calls :
       /\ calls[i][1] = "CopyResource" =>
            /\ \E j \in 1..(i - 1) : calls[j] = <<"AcquireNextFrame", S_OK>>
            /\ \A j \in 1..(i - 1) : calls[j][1] # "ReleaseFrame"
            /\ \/ \E j \in (i + 1)..Len(calls) : calls[j][1] = "ReleaseFrame"
               \/ pc \in {"shape", "get_shape", "release"}
       /\ calls[i][1] \in {"Map", "copy"} =>
            \E j \in 1..(i - 1) :
              /\ calls[j] = <<"ReleaseFrame", S_OK>>
              /\ \E k \in 1..(j - 1) : calls[k][1] = "CopyResource"

C30_Witness ==
  /\ pc = "unmap"
  /\ dupl = "idle"
  /\ calls = << <<"AcquireNextFrame", S_OK>>, <<"CopyResource", S_OK>>,
                <<"ReleaseFrame", S_OK>>, <<"Map", S_OK>>, <<"copy", S_OK>> >>


\* ------------------------------------------- the extension functions alone
\* SpecExt applies the functions of ext.rs / utils.rs and the texture
\* geometry of create_readable_texture to an argument drawn in InitExt.
MaxStamp == 1      \* timestamps -MaxStamp..MaxStamp (LARGE_INTEGER is signed)

\* the Capturer does not exist while single functions are applied
InitOff ==
  /\ mode = [Width |-> 1, Height |-> 1]
  /\ dupl = "idle"
  /\ frame = 0
  /\ staging = 0
  /\ mapped = FALSE
  /\ buffer = <<>>
  /\ pointer_shape_buffer = <<>>
  /\ texture_desc = [Width |-> 0, Height |-> 0]
  /\ pc = "off"
  /\ op = "none"
  /\ frame_info = NoFrameInfo
  /\ pointer_shape_info = "None"
  /\ pending = NoErr
  /\ mapped_surface = NoMap
  /\ result = NoResult
  /\ calls = <<>>
  /\ pre = [buffer |-> <<>>, pointer_shape_buffer |-> <<>>, mode |-> mode]
  /\ copied = NoCopy
  /\ largest_shape = 0

mvars == <<mode, dupl, frame, staging, mapped, buffer,
           pointer_shape_buffer, texture_desc, pc, op, frame_info,
           pointer_shape_info, pending, mapped_surface, result, calls, pre,
           copied, largest_shape>>

\* every DXGI_OUTDUPL_FRAME_INFO, whether or not a driver would produce it
FrameInfoValues ==
  [LastPresentTime : (0 - MaxStamp)..MaxStamp,
   LastMouseUpdateTime : (0 - MaxStamp)..MaxStamp,
   PointerShapeBufferSize : 0..MaxShapeSize]

\* widths and heights of a DXGI_MODE_DESC: small ones, 2^15 and 2^16
Dims == (1..MaxPixels) \cup {U32Half \div 2, U32Half}
ModeDescs == [Width : Dims, Height : Dims]

\* DXGI_MODE_ROTATION: UNSPECIFIED, IDENTITY, ROTATE90, ROTATE180, ROTATE270
ModeRotations == 0..4

ExtArgs ==
  {[kind |-> "frame_info", v |-> fi] : fi \in FrameInfoValues}
    \cup {[kind |-> "dupl_desc", v |-> m] : m \in ModeDescs}
    \cup {[kind |-> "texture", v |-> m, rotation |-> r] :
            m \in [Width : 1..MaxPixels, Height : 1..MaxPixels],
            r \in ModeRotations}
    \cup {[kind |-> "pixel_copy", v |-> m, len |-> n, pad |-> p] :
            m \in Modes, n \in 0..(MaxPixels * BytesPerPixel + 1),
            p \in Pads}

InitExt ==
  /\ InitOff
  /\ arg \in ExtArgs
  /\ ret = NoRet
  /\ shared = NoShared
  /\ delivered = NoDelivered
  /\ ShmOff /\ ScanOff /\ MultiOff /\ MgrOff

\* frame_info.desktop_updated()
CallDesktopUpdated ==
  /\ ret = NoRet
  /\ arg.kind = "frame_info"
  /\ ret' = [kind |-> "desktop_updated", value |-> desktop_updated(arg.v)]
  /\ UNCHANGED <<mvars, arg, shared, delivered, xvars>>

\* frame_info.mouse_updated() of ext.rs
CallMouseUpdated ==
  /\ ret = NoRet
  /\ arg.kind = "frame_info"
  /\ ret' = [kind |-> "mouse_updated",
             value |-> mouse_updated(arg.v).position_updated,
             shape_updated |-> mouse_updated(arg.v).shape_updated]
  /\ UNCHANGED <<mvars, arg, shared, delivered, xvars>>

\* frame_info.mouse_updated() of utils.rs
CallUtilsMouseUpdated ==
  /\ ret = NoRet
  /\ arg.kind = "frame_info"
  /\ ret' = [kind |-> "utils_mouse_updated",
             value |-> utils_mouse_updated(arg.v)]
  /\ UNCHANGED <<mvars, arg, shared, delivered, xvars>>

\* frame_info.pointer_shape_updated()
CallPointerShapeUpdated ==
  /\ ret = NoRet
  /\ arg.kind = "frame_info"
  /\ ret' = [kind |-> "pointer_shape_updated",
             value |-> pointer_shape_updated(arg.v)]
  /\ UNCHANGED <<mvars, arg, shared, delivered, xvars>>

\* dupl_desc.calc_buffer_size(): an overflowing product wraps in a release
\* build and panics in a debug build
CallCalcBufferSize ==
  /\ ret = NoRet
  /\ arg.kind = "dupl_desc"
  /\ \E panics \in IF calc_buffer_size_overflows(arg.v)
                   THEN {TRUE, FALSE} ELSE {FALSE} :
       ret' = [kind |-> "calc_buffer_size", panicked |-> panics,
               value |-> IF panics THEN Wide(0)
                         ELSE calc_buffer_size_u32(arg.v)]
  /\ UNCHANGED <<mvars, arg, shared, delivered, xvars>>

\* create_readable_texture for a mode and an output rotation
CallCreateReadableTexture ==
  /\ ret = NoRet
  /\ arg.kind = "texture"
  /\ \E getdesc \in {S_OK, E_FAIL}, createtex \in {S_OK, E_FAIL} :
       ret' = IF getdesc # S_OK
              THEN [kind |-> "create_readable_texture",
                    err |-> from_win_err(API_GETDESC, getdesc),
                    value |-> [Width |-> 0, Height |-> 0]]
              ELSE IF createtex # S_OK
              THEN [kind |-> "create_readable_texture",
                    err |-> from_win_err(API_CREATETEX, createtex),
                    value |-> [Width |-> 0, Height |-> 0]]
              ELSE [kind |-> "create_readable_texture", err |-> NoErr,
                    value |-> create_texture_desc(arg.v, arg.rotation)]
  /\ UNCHANGED <<mvars, arg, shared, delivered, xvars>>

\* capture(frame, dest, texture_desc) between Map and Unmap, on a zeroed dest
\* of arg.len bytes and a surface mapped with the pitch Width * 4 + arg.pad
CallPixelCopy ==
  /\ ret = NoRet
  /\ arg.kind = "pixel_copy"
  /\ LET c == pixel_copy(vec_zeroed(arg.len), 1, arg.v,
                         arg.v.Width * BytesPerPixel + arg.pad)
     IN ret' = [kind |-> "pixel_copy", dest |-> c.dest, wr_end |-> c.wr_end,
                rd_end |-> c.rd_end, row_bytes |-> c.row_bytes]
  /\ UNCHANGED <<mvars, arg, shared, delivered, xvars>>

NextExt ==
  \/ CallPixelCopy
  \/ CallDesktopUpdated
  \/ CallMouseUpdated
  \/ CallUtilsMouseUpdated
  \/ CallPointerShapeUpdated
  \/ CallCalcBufferSize
  \/ CallCreateReadableTexture

SpecExt == InitExt /\ [][NextExt]_vars

\* C16: for all mode widths and heights representable in the descriptor
\* (unsigned 32-bit) calc_buffer_size returns exactly width*height*4 as a
\* mathematical integer, with no wrap-around of the 32-bit multiplication.
C16_CalcBufferSizeExact ==
  ret.kind = "calc_buffer_size" =>
    /\ ~ret.panicked
    /\ ret.value = MulWide(MulWide(Wide(arg.v.Width), arg.v.Height),
                           BytesPerPixel)

\* C17: for every frame info value (timestamps are signed 64-bit integers)
\* desktop_updated is true if and only if LastPresentTime # 0, and the
\* mouse-updated flag (mouse_updated / position_updated) is true if and only
\* if LastMouseUpdateTime # 0.
C17_UpdatedIffNonzero ==
  /\ ret.kind = "desktop_updated" =>
       (ret.value <=> arg.v.LastPresentTime # 0)
  /\ ret.kind \in {"mouse_updated", "utils_mouse_updated"} =>
       (ret.value <=> arg.v.LastMouseUpdateTime # 0)

\* C18: for every frame info value the pointer-shape-updated flag
\* (pointer_shape_updated / mouse_updated().shape_updated) is true if and
\* only if PointerShapeBufferSize > 0, whatever LastMouseUpdateTime is.
C18_ShapeUpdatedIffSizePositive ==
  /\ ret.kind = "pointer_shape_updated" =>
       (ret.value <=> arg.v.PointerShapeBufferSize > 0)
  /\ ret.kind = "mouse_updated" =>
       (ret.shape_updated <=> arg.v.PointerShapeBufferSize > 0)

\* C19: create_readable_texture sizes the staging texture to the rotated
\* resolution: (Width, Height) is (mode Height, mode Width) when the
\* output's rotation value is 2 or 4 and (mode Width, mode Height) for every
\* other rotation value, so a non-square mode is swapped if and only if the
\* rotation is 2 or 4; in both cases Width*Height*4 equals calc_buffer_size
\* of the duplication mode.
C19_TextureFollowsRotation ==
  (ret.kind = "create_readable_texture" /\ ret.err = NoErr) =>
    LET td == ret.value
        m == arg.v
        swapped == [Width |-> m.Height, Height |-> m.Width]
    IN /\ arg.rotation \in {2, 4} => td = swapped
       /\ arg.rotation \notin {2, 4} => td = m
       /\ m.Width # m.Height => (td = swapped <=> arg.rotation \in {2, 4})
       /\ td.Width * td.Height * BytesPerPixel = calc_buffer_size(m)

C19_Witness ==
  /\ ret.kind = "create_readable_texture"
  /\ ret.err = NoErr
  /\ arg.rotation = 4
  /\ arg.v = [Width |-> MaxPixels, Height |-> 1]
  /\ ret.value = [Width |-> 1, Height |-> MaxPixels]


\* ------------------------------ SharedCapturer / CustomCapturer: two slots
\* SpecShared runs the pointer shape bookkeeping of the change-detecting
\* capturers (capturer/shared.rs, capturer/custom.rs: the same code) on top
\* of DuplicationContext::capture_with_pointer_shape.
NumShapes == 2     \* distinct pointer shapes of one size the driver delivers
MaxSlotShape == 1  \* PointerShapeBufferSize 0..MaxSlotShape in SpecShared

\* frame infos the driver hands out to the change-detecting capturers
SlotFrameInfos ==
  { fi \in [LastPresentTime : {1}, LastMouseUpdateTime : {0, 1},
            PointerShapeBufferSize : 0..MaxSlotShape] :
      fi.PointerShapeBufferSize > 0 => fi.LastMouseUpdateTime # 0 }

\* the bytes of pointer shape id, size bytes long
ShapeBytes(id, size) == [i \in 1..size |-> id * 10 + i]

\* where DuplicationContext::capture_with_pointer_shape ends: at the `?` of
\* the acquire, in the Err arm of GetFramePointerShape, at a later `?`
\* (ReleaseFrame, Map, Unmap), or with Ok
CtxOutcomes(fi) ==
  {"acquire_failed", "later_failed", "ok"}
    \cup IF mouse_updated(fi).shape_updated THEN {"shape_failed"} ELSE {}

\* mutant: the buffer handed over is never resized
ctx_pointer_shape_buffer_no_resize(buf, fi, id, outcome) == buf

\* DuplicationContext::next_frame_with_pointer_shape on the buffer it is
\* handed: left alone unless the shape is updated, else resized up and, when
\* GetFramePointerShape succeeds, filled with the shape
ctx_pointer_shape_buffer(buf, fi, id, outcome) ==
  IF outcome = "acquire_failed" \/ ~mouse_updated(fi).shape_updated
  THEN buf
  ELSE LET r == resize_up(buf, fi.PointerShapeBufferSize)
       IN IF outcome = "shape_failed" THEN r
          ELSE [i \in 1..Len(r) |->
                  IF i <= fi.PointerShapeBufferSize
                  THEN ShapeBytes(id, fi.PointerShapeBufferSize)[i]
                  ELSE r[i]]

\* the driver handed a shape over and the call went on to succeed
ShapeDelivered(fi, outcome) ==
  outcome = "ok" /\ mouse_updated(fi).shape_updated

\* SharedCapturer::pointer_shape_buffer(): the current slot up to its size
pointer_shape_buffer_slice(sh) ==
  SubSeq(sh.pointer_shape_buffer, 1, sh.pointer_shape_buffer_size)

\* the last slot up to its recorded size
last_pointer_shape_buffer_slice(sh) ==
  SubSeq(sh.last_pointer_shape_buffer, 1, sh.last_pointer_shape_buffer_size)

\* mutant: only the recorded sizes are compared
SharedCapturer_pointer_shape_updated_sizes_only(sh) ==
  [panicked |-> FALSE,
   value |-> sh.pointer_shape_buffer_size # sh.last_pointer_shape_buffer_size]

\* SharedCapturer::pointer_shape_updated; slicing beyond a Vec's length panics
SharedCapturer_pointer_shape_updated(sh) ==
  LET len == sh.pointer_shape_buffer_size
  IN IF sh.pointer_shape_buffer_size # sh.last_pointer_shape_buffer_size
     THEN [panicked |-> FALSE, value |-> TRUE]
     ELSE IF \/ len > Len(sh.pointer_shape_buffer)
             \/ len > Len(sh.last_pointer_shape_buffer)
     THEN [panicked |-> TRUE, value |-> FALSE]
     ELSE [panicked |-> FALSE,
           value |-> SubSeq(sh.pointer_shape_buffer, 1, len) #
                       SubSeq(sh.last_pointer_shape_buffer, 1, len)]

InitShared ==
  /\ InitOff
  /\ arg = NoArg
  /\ ret = NoRet
  /\ shared = NoShared
  /\ delivered = NoDelivered
  /\ ShmOff /\ ScanOff /\ MultiOff /\ MgrOff

\* SharedCapturer::capture_with_pointer_shape: the context writes into the
\* last slot; when the mouse is updated the size is recorded and the slots
\* are swapped
SharedCapturer_capture_with_pointer_shape ==
  /\ \E fi \in SlotFrameInfos, id \in 1..NumShapes :
     \E outcome \in CtxOutcomes(fi) :
       LET written == ctx_pointer_shape_buffer(
                        shared.last_pointer_shape_buffer, fi, id, outcome)
       IN /\ IF outcome # "ok"
             THEN /\ shared' = [shared EXCEPT
                                  !.last_pointer_shape_buffer = written]
                  /\ UNCHANGED delivered
             ELSE /\ shared' =
                       IF utils_mouse_updated(fi)
                       THEN [pointer_shape_buffer |-> written,
                             pointer_shape_buffer_size |->
                               fi.PointerShapeBufferSize,
                             last_pointer_shape_buffer |->
                               shared.pointer_shape_buffer,
                             last_pointer_shape_buffer_size |->
                               shared.pointer_shape_buffer_size]
                       ELSE [shared EXCEPT
                               !.last_pointer_shape_buffer = written]
                  /\ delivered' =
                       IF ShapeDelivered(fi, outcome)
                       THEN [latest |-> ShapeBytes(id, fi.PointerShapeBufferSize),
                             prev |-> delivered.latest]
                       ELSE delivered
  /\ ret' = NoRet
  /\ UNCHANGED <<mvars, arg, xvars>>

\* a call of pointer_shape_updated() between two captures
SharedCapturer_call_pointer_shape_updated ==
  /\ ret = NoRet
  /\ ret' = [kind |-> "SharedCapturer::pointer_shape_updated",
             panicked |-> SharedCapturer_pointer_shape_updated(shared).panicked,
             value |-> SharedCapturer_pointer_shape_updated(shared).value]
  /\ UNCHANGED <<mvars, arg, shared, delivered, xvars>>

NextShared ==
  \/ SharedCapturer_capture_with_pointer_shape
  \/ SharedCapturer_call_pointer_shape_updated

SpecShared == InitShared /\ [][NextShared]_vars

\* C14: in the change-detecting capturers, after any sequence of
\* capture_with_pointer_shape calls, pointer_shape_buffer() (the current slot
\* with its recorded size) holds the bytes of the most recent pointer shape
\* the driver delivered and the last slot holds the shape delivered before
\* it, also when some frames only moved the pointer (LastMouseUpdateTime
\* nonzero, PointerShapeBufferSize = 0).
C14_SlotsHoldLatestShapes ==
  /\ pointer_shape_buffer_slice(shared) = delivered.latest
  /\ last_pointer_shape_buffer_slice(shared) = delivered.prev

\* C15: pointer_shape_updated() of a change-detecting capturer returns true
\* if and only if the current and the last shape differ: their recorded
\* sizes differ or, with equal sizes, some byte within that size differs; it
\* returns false on a freshly constructed capturer.
C15_UpdatedIffSlotsDiffer ==
  /\ shared.pointer_shape_buffer_size <= Len(shared.pointer_shape_buffer)
  /\ shared.last_pointer_shape_buffer_size <=
       Len(shared.last_pointer_shape_buffer)
  /\ ret.kind = "SharedCapturer::pointer_shape_updated" =>
       /\ ~ret.panicked
       /\ ret.value <=>
            \/ shared.pointer_shape_buffer_size #
                 shared.last_pointer_shape_buffer_size
            \/ \E i \in 1..shared.pointer_shape_buffer_size :
                 shared.pointer_shape_buffer[i] #
                   shared.last_pointer_shape_buffer[i]
       /\ shared = NoShared => ~ret.value

C15_Witness ==
  /\ ret.kind = "SharedCapturer::pointer_shape_updated"
  /\ ret.value
  /\ shared.pointer_shape_buffer_size = MaxSlotShape
  /\ shared.last_pointer_shape_buffer_size = MaxSlotShape
  /\ shared.pointer_shape_buffer # shared.last_pointer_shape_buffer

\* C35: in every reachable state of a capturer that records pointer-shape
\* sizes each recorded size is at most the length of the Vec it indexes
\* (current size <= current length, last size <= last length, and with equal
\* sizes both Vecs are at least that long), so pointer_shape_buffer() and
\* pointer_shape_updated() never slice out of bounds.
C35_SizesWithinVecs ==
  /\ shared.pointer_shape_buffer_size <= Len(shared.pointer_shape_buffer)
  /\ shared.last_pointer_shape_buffer_size <=
       Len(shared.last_pointer_shape_buffer)
  /\ shared.pointer_shape_buffer_size = shared.last_pointer_shape_buffer_size
       => /\ Len(shared.pointer_shape_buffer) >=
               shared.pointer_shape_buffer_size
          /\ Len(shared.last_pointer_shape_buffer) >=
               shared.pointer_shape_buffer_size
  /\ Len(pointer_shape_buffer_slice(shared)) = shared.pointer_shape_buffer_size
  /\ ~SharedCapturer_pointer_shape_updated(shared).panicked

C35_Witness ==
  /\ shared.pointer_shape_buffer_size = MaxSlotShape
  /\ shared.last_pointer_shape_buffer_size = 0
  /\ Len(shared.last_pointer_shape_buffer) >= MaxSlotShape
  /\ ret.kind = "SharedCapturer::pointer_shape_updated"
  /\ ~ret.panicked

\* ------------------------------------------- the shared-memory backend
\* SpecShm follows two SharedCapturers through their lives, the one a
\* process makes with new and the one a process makes with open, and the
\* named file-mapping objects of the system they refer to.
NUL == "NUL"

\* the names callers pass, as the bytes of the &str
RustNames == { <<"a">>, <<"a", "b">>, <<"a", NUL, "b">> }

\* the bytes that lie behind a &str in memory up to the first NUL: a &str
\* carries no terminator, what follows it is whatever the build placed there
Tails == { <<NUL>>, <<"b", NUL>> }

HasNul(name) == \E i \in DOMAIN name : name[i] = NUL

\* what a PCSTR parameter denotes: the bytes up to the first NUL
RECURSIVE CRead(_)
CRead(bytes) ==
  IF bytes = <<>> \/ Head(bytes) = NUL THEN <<>>
  ELSE <<Head(bytes)>> \o CRead(Tail(bytes))

ObjNames == { CRead(n \o t) : n \in RustNames, t \in Tails }

\* a name no handle and no view refers to names no object
NoObject == [size |-> 0, data |-> <<>>, refs |-> 0]

\* copying is the frame a capture in progress is writing (0: none), done
\* the bytes of it that are written, wrote whether a capture ever began
NoCapturer ==
  [st |-> "none", name |-> <<>>, obj |-> <<>>, size |-> 0, file |-> "none",
   view |-> "none", closes |-> 0, unmaps |-> 0, err |-> NoErr, failed |-> "",
   known |-> FALSE, copying |-> 0, done |-> 0, wrote |-> FALSE]

\* a handle or a view more refers to the object
AddRef(objs, n) == [objs EXCEPT ![n].refs = @ + 1]

\* CloseHandle / UnmapViewOfFile: the object goes with its last reference
DropRef(objs, n) ==
  IF objs[n].refs <= 1 THEN [objs EXCEPT ![n] = NoObject]
  ELSE [objs EXCEPT ![n].refs = @ - 1]

\* CreateFileMappingA(INVALID_HANDLE_VALUE, .., size, name): a new zeroed
\* object, or one more handle to the object the name already denotes
CreateFileMappingA(objs, n, size) ==
  IF objs[n].refs > 0 THEN AddRef(objs, n)
  ELSE [objs EXCEPT ![n] = [size |-> size, data |-> [i \in 1..size |-> 0],
                            refs |-> 1]]

\* mutant: the handle is not closed when the view cannot be mapped
map_view_no_close(objs, c, n, hr) ==
  IF hr # S_OK \/ c.size > objs[n].size
  THEN [objs |-> objs,
        cap  |-> [c EXCEPT !.st = "err", !.obj = n, !.file = "open",
                           !.err = windows("MapViewOfFile", E_FAIL),
                           !.failed = "MapViewOfFile"]]
  ELSE [objs |-> AddRef(objs, n),
        cap  |-> [c EXCEPT !.st = "live", !.obj = n, !.file = "open",
                           !.view = "mapped"]]

\* the MapViewOfFile match of allocate and open_file, file being a handle to
\* the object n: a view of more bytes than the object has is refused
map_view(objs, c, n, hr) ==
  IF hr # S_OK \/ c.size > objs[n].size
  THEN [objs |-> DropRef(objs, n),
        cap  |-> [c EXCEPT !.st = "err", !.obj = n, !.file = "closed",
                           !.closes = @ + 1,
                           !.err = windows("MapViewOfFile", E_FAIL),
                           !.failed = "MapViewOfFile"]]
  ELSE [objs |-> AddRef(objs, n),
        cap  |-> [c EXCEPT !.st = "live", !.obj = n, !.file = "open",
                           !.view = "mapped"]]

\* Capturer::buffer of a SharedCapturer: buffer_size bytes of the view
shm_buffer(objs, c) ==
  [i \in 1..c.size |-> IF i <= Len(objs[c.obj].data)
                       THEN objs[c.obj].data[i] ELSE Garbage]

InitShm ==
  /\ InitOff
  /\ arg = NoArg
  /\ ret = NoRet
  /\ shared = NoShared
  /\ delivered = NoDelivered
  /\ ScanOff /\ MultiOff /\ MgrOff
  /\ mappings = [n \in ObjNames |-> NoObject]
  /\ sm = [r \in {"new", "open"} |-> NoCapturer]
  /\ created = {}

\* SharedCapturer::new: allocate with its texture, CString::new(name)
\* .unwrap(), CreateFileMappingA and MapViewOfFile
SharedCapturer_new ==
  /\ sm["new"].st = "none"
  /\ \E name \in RustNames, m \in Modes,
        fails \in {"", "CreateTexture2D", "CreateFileMappingA",
                   "MapViewOfFile"} :
       LET c == [NoCapturer EXCEPT !.name = name,
                                   !.size = calc_buffer_size(m),
                                   !.known = name \in created]
           objs == CreateFileMappingA(mappings, name, c.size)
           r == map_view(objs, c, name,
                         IF fails = "MapViewOfFile" THEN E_FAIL ELSE S_OK)
       IN IF fails = "CreateTexture2D"
          THEN /\ sm' = [sm EXCEPT !["new"] =
                          [c EXCEPT !.st = "err",
                                    !.err = windows("CreateTexture2D", E_FAIL),
                                    !.failed = fails]]
               /\ UNCHANGED <<mappings, created>>
          ELSE IF HasNul(name)
          THEN /\ sm' = [sm EXCEPT !["new"] = [c EXCEPT !.st = "panicked"]]
               /\ UNCHANGED <<mappings, created>>
          ELSE IF fails = "CreateFileMappingA"
          THEN /\ sm' = [sm EXCEPT !["new"] =
                          [c EXCEPT !.st = "err",
                                    !.err = windows("CreateFileMappingA", E_FAIL),
                                    !.failed = fails]]
               /\ UNCHANGED <<mappings, created>>
          ELSE /\ sm' = [sm EXCEPT !["new"] = r.cap]
               /\ mappings' = r.objs
               /\ created' = created \cup {name}
  /\ UNCHANGED <<mvars, manager, arg, ret, shared, delivered, sys, scanner,
                 sessions, caps, turn>>

\* SharedCapturer::open: open_file with its texture, OpenFileMappingA on
\* name.as_ptr(), which fails when the bytes read there name no object, and
\* MapViewOfFile
SharedCapturer_open ==
  /\ sm["open"].st = "none"
  /\ \E name \in RustNames, tail \in Tails, m \in Modes,
        fails \in {"", "CreateTexture2D", "OpenFileMappingA",
                   "MapViewOfFile"} :
       LET c == [NoCapturer EXCEPT !.name = name,
                                   !.size = calc_buffer_size(m),
                                   !.known = name \in created]
           n == CRead(name \o tail)
           r == map_view(AddRef(mappings, n), c, n,
                         IF fails = "MapViewOfFile" THEN E_FAIL ELSE S_OK)
       IN IF fails = "CreateTexture2D"
          THEN /\ sm' = [sm EXCEPT !["open"] =
                          [c EXCEPT !.st = "err",
                                    !.err = windows("CreateTexture2D", E_FAIL),
                                    !.failed = fails]]
               /\ UNCHANGED mappings
          ELSE IF fails = "OpenFileMappingA" \/ mappings[n].refs = 0
          THEN /\ sm' = [sm EXCEPT !["open"] =
                          [c EXCEPT !.st = "err",
                                    !.err = windows("CreateFileMappingA", E_FAIL),
                                    !.failed = "OpenFileMappingA"]]
               /\ UNCHANGED mappings
          ELSE /\ sm' = [sm EXCEPT !["open"] = r.cap]
               /\ mappings' = r.objs
  /\ UNCHANGED <<mvars, manager, arg, ret, shared, delivered, created, sys, scanner,
                 sessions, caps, turn>>

\* Drop for SharedCapturer: free() unmaps the view and closes the handle
SharedCapturer_drop ==
  /\ \E r \in {"new", "open"} :
       /\ sm[r].st = "live"
       /\ sm[r].copying = 0
       /\ mappings' = DropRef(DropRef(mappings, sm[r].obj), sm[r].obj)
       /\ sm' = [sm EXCEPT ![r].st = "dropped", ![r].view = "unmapped",
                           ![r].unmaps = @ + 1, ![r].file = "closed",
                           ![r].closes = @ + 1]
  /\ UNCHANGED <<mvars, manager, arg, ret, shared, delivered, created, sys, scanner,
                 sessions, caps, turn>>

\* SharedCapturer::capture up to the pixel copy: frame f is acquired, copied
\* to the staging texture and mapped
SharedCapturer_capture ==
  /\ \E r \in {"new", "open"}, f \in 1..NumFrames :
       /\ sm[r].st = "live"
       /\ sm[r].copying = 0
       /\ sm' = [sm EXCEPT ![r].copying = f, ![r].done = 0, ![r].wrote = TRUE]
  /\ UNCHANGED <<mvars, manager, arg, ret, shared, delivered, mappings, created,
                 sys, scanner, sessions, caps, turn>>

\* the pixel copy of DuplicationContext::capture into the view goes on by
\* one pixel; the other process runs between two steps, nothing orders its
\* reads with the writes.  With the last pixel the capture returns.
SharedCapturer_copy ==
  /\ \E r \in {"new", "open"} :
       /\ sm[r].st = "live"
       /\ sm[r].copying > 0
       /\ mappings' = [mappings EXCEPT ![sm[r].obj].data =
                         [i \in 1..Len(@) |->
                            IF i > sm[r].done /\ i <= sm[r].done + BytesPerPixel
                            THEN sm[r].copying ELSE @[i]]]
       /\ sm' = IF sm[r].done + BytesPerPixel >= sm[r].size
                THEN [sm EXCEPT ![r].copying = 0, ![r].done = 0]
                ELSE [sm EXCEPT ![r].done = @ + BytesPerPixel]
  /\ UNCHANGED <<mvars, manager, arg, ret, shared, delivered, created, sys,
                 scanner, sessions, caps, turn>>

\* a process reads buffer() of its SharedCapturer
SharedCapturer_buffer ==
  /\ \E r \in {"new", "open"} :
       /\ sm[r].st = "live"
       /\ sm[r].copying = 0
       /\ ret' = [kind |-> "SharedCapturer::buffer", by |-> r,
                  data |-> shm_buffer(mappings, sm[r])]
  /\ UNCHANGED <<mvars, manager, arg, shared, delivered, mappings, sm, created,
                 sys, scanner, sessions, caps, turn>>

NextShm ==
  \/ SharedCapturer_new
  \/ SharedCapturer_open
  \/ SharedCapturer_drop
  \/ SharedCapturer_capture
  \/ SharedCapturer_copy
  \/ SharedCapturer_buffer

SpecShm == InitShm /\ [][NextShm]_vars

\* handles and views the two capturers hold on the object n
HeldRefs(n) ==
  Cardinality({r \in {"new", "open"} : sm[r].obj = n /\ sm[r].file = "open"})
  + Cardinality({r \in {"new", "open"} :
                   sm[r].obj = n /\ sm[r].view = "mapped"})

\* C22: over the whole life of a shared-memory capturer, constructor error
\* paths included, the file-mapping handle is closed exactly once (in the
\* constructor when MapViewOfFile fails, otherwise on drop), the view is
\* unmapped exactly once if and only if it was mapped, and nothing is
\* released when the mapping was never obtained.
C22_HandleAndViewReleasedOnce ==
  /\ \A r \in {"new", "open"} :
       /\ sm[r].st = "live" =>
            /\ sm[r].file = "open" /\ sm[r].view = "mapped"
            /\ sm[r].closes = 0 /\ sm[r].unmaps = 0
       /\ sm[r].st = "dropped" =>
            /\ sm[r].file = "closed" /\ sm[r].view = "unmapped"
            /\ sm[r].closes = 1 /\ sm[r].unmaps = 1
       /\ (sm[r].st = "err" /\ sm[r].failed = "MapViewOfFile") =>
            /\ sm[r].file = "closed" /\ sm[r].view = "none"
            /\ sm[r].closes = 1 /\ sm[r].unmaps = 0
       /\ (sm[r].st = "err" /\ sm[r].failed # "MapViewOfFile") =>
            /\ sm[r].file = "none" /\ sm[r].view = "none"
            /\ sm[r].closes = 0 /\ sm[r].unmaps = 0
       /\ sm[r].st \in {"none", "panicked"} =>
            /\ sm[r].file = "none" /\ sm[r].view = "none"
            /\ sm[r].closes = 0 /\ sm[r].unmaps = 0
  /\ \A n \in ObjNames : mappings[n].refs = HeldRefs(n)

C22_Witness ==
  /\ sm["new"].st = "dropped"
  /\ sm["open"].st = "err"
  /\ sm["open"].failed = "MapViewOfFile"
  /\ sm["open"].closes = 1
  /\ \A n \in ObjNames : mappings[n] = NoObject

\* C23: opening a shared buffer by a name under which none was ever created
\* returns an error value that carries the platform error, and leaves no
\* handle open and no view mapped.
C23_OpenUnknownNameFails ==
  (sm["open"].st # "none" /\ ~sm["open"].known) =>
    /\ sm["open"].st = "err"
    /\ sm["open"].err.kind = "Windows"
    /\ sm["open"].err.code # ""
    /\ sm["open"].file # "open"
    /\ sm["open"].view # "mapped"

\* C24: constructing a shared buffer, by new or by open, with a name that
\* contains an embedded NUL fails by returning an error value: the call
\* neither panics nor creates or opens an object under a truncated name.
C24_EmbeddedNulIsAnError ==
  \A r \in {"new", "open"} :
    (sm[r].st # "none" /\ HasNul(sm[r].name)) =>
      /\ sm[r].st = "err"
      /\ sm[r].file = "none"
      /\ sm[r].view = "none"

\* C25: a shared buffer created under the name N and a shared buffer opened
\* under the same name N expose the same byte length, and after a completed
\* capture() of the creator the opener reads exactly the bytes written.
C25_OpenerSeesCreatorsBuffer ==
  (/\ sm["new"].st = "live"
   /\ sm["open"].st = "live"
   /\ sm["new"].name = sm["open"].name) =>
    /\ sm["open"].size = sm["new"].size
    /\ shm_buffer(mappings, sm["open"]) = shm_buffer(mappings, sm["new"])

\* C27: every platform error is tagged with the name of the API that
\* actually failed (CreateTexture2D, CreateFileMappingA, OpenFileMappingA,
\* MapViewOfFile).
C27_ErrorTagNamesFailedApi ==
  \A r \in {"new", "open"} :
    sm[r].st = "err" => sm[r].err.api = sm[r].failed


\* ----------------------------------------------------- the Factory iterator
\* SpecScan runs Factory::new and Iterator::next on a machine whose adapters
\* and outputs are drawn in InitScan.
MaxAdapters == 2   \* adapters EnumAdapters1 reports
MaxOutputs == 2    \* outputs EnumOutputs reports per adapter

\* an adapter: whether D3D11CreateDevice succeeds on it and, output by
\* output, whether DuplicateOutput succeeds
Adapters ==
  UNION { [device_ok : BOOLEAN, outputs : [1..k -> BOOLEAN]] :
            k \in 0..MaxOutputs }

Machines == UNION { [1..k -> Adapters] : k \in 0..MaxAdapters }

\* next() is called on after it returned None, MaxNones times in all
MaxNones == 2

\* the Factory, the contexts next() has yielded, how often it returned None
\* and what it returned last
NoFactory ==
  [st |-> "none", next_adapter_index |-> 0, next_output_index |-> 0,
   adapter |-> 0, yielded |-> <<>>, nones |-> 0, last |-> "none"]

\* get_adapter(factory, adapter_index): EnumAdapters1 and D3D11CreateDevice
get_adapter(machine, adapter_index) ==
  /\ adapter_index + 1 \in DOMAIN machine
  /\ machine[adapter_index + 1].device_ok

\* mutant: the output index stays where it is
get_current_ctx_no_advance(machine, f) ==
  LET output_index == f.next_output_index
      outputs == machine[f.adapter + 1].outputs
  IN IF output_index + 1 \notin DOMAIN outputs THEN [f |-> f, item |-> <<>>]
     ELSE IF ~outputs[output_index + 1] THEN [f |-> f, item |-> <<>>]
     ELSE [f |-> f, item |-> <<f.adapter, output_index>>]

\* Factory::get_current_ctx: the output index moves on, then EnumOutputs(..)
\* .ok()? and DuplicateOutput(..).ok()?
get_current_ctx(machine, f) ==
  LET output_index == f.next_output_index
      outputs == machine[f.adapter + 1].outputs
      g == [f EXCEPT !.next_output_index = @ + 1]
  IN IF output_index + 1 \notin DOMAIN outputs THEN [f |-> g, item |-> <<>>]
     ELSE IF ~outputs[output_index + 1] THEN [f |-> g, item |-> <<>>]
     ELSE [f |-> g, item |-> <<f.adapter, output_index>>]

\* Iterator::next for Factory: the loop over get_current_ctx and get_adapter
RECURSIVE next(_, _)
next(machine, f) ==
  LET r == get_current_ctx(machine, f)
      adapter_index == r.f.next_adapter_index
      g == [r.f EXCEPT !.next_adapter_index = @ + 1]
  IN IF r.item # <<>> THEN r
     ELSE IF ~get_adapter(machine, adapter_index)
          THEN [f |-> g, item |-> <<>>]
          ELSE next(machine, [g EXCEPT !.adapter = adapter_index,
                                       !.next_output_index = 0])

InitScan ==
  /\ InitOff
  /\ arg = NoArg
  /\ ret = NoRet
  /\ shared = NoShared
  /\ delivered = NoDelivered
  /\ ShmOff /\ MultiOff /\ MgrOff
  /\ sys \in Machines
  /\ scanner = NoFactory

\* Factory::new: the first adapter, or the error of get_adapter
Factory_new ==
  /\ scanner.st = "none"
  /\ scanner' = IF get_adapter(sys, 0)
                THEN [NoFactory EXCEPT !.st = "iterating",
                                       !.next_adapter_index = 1]
                ELSE [NoFactory EXCEPT !.st = "failed"]
  /\ UNCHANGED <<mvars, manager, arg, ret, shared, delivered, mappings, sm, created,
                 sys, sessions, caps, turn>>

\* one call of next(), also after a call that returned None
Factory_next ==
  /\ scanner.st \in {"iterating", "exhausted"}
  /\ scanner.nones < MaxNones
  /\ LET r == next(sys, scanner)
     IN scanner' = IF r.item = <<>>
                   THEN [r.f EXCEPT !.st = "exhausted", !.nones = @ + 1,
                                    !.last = "None"]
                   ELSE [r.f EXCEPT !.yielded = Append(@, r.item),
                                    !.last = "Some"]
  /\ UNCHANGED <<mvars, manager, arg, ret, shared, delivered, mappings, sm, created,
                 sys, sessions, caps, turn>>

NextScan ==
  \/ Factory_new
  \/ Factory_next

SpecScan == InitScan /\ [][NextScan]_vars

\* the caller goes on calling next()
SpecScanFair == SpecScan /\ WF_vars(Factory_next)

\* the (adapter, output) pairs, counted from 0, that can be duplicated
Duplicatable ==
  { p \in (0..(MaxAdapters - 1)) \X (0..(MaxOutputs - 1)) :
      /\ p[1] + 1 \in DOMAIN sys
      /\ sys[p[1] + 1].device_ok
      /\ p[2] + 1 \in DOMAIN sys[p[1] + 1].outputs
      /\ sys[p[1] + 1].outputs[p[2] + 1] }

\* C29: iterating the Factory to exhaustion yields exactly one context for
\* every (adapter, output) pair whose output can be duplicated, across all
\* adapters: an output that cannot be duplicated hides no later output of
\* the same adapter and none of a later adapter.
C29_EveryDuplicatableOutputYielded ==
  (scanner.st = "exhausted" /\ scanner.nones = 1 /\ scanner.last = "None") =>
    /\ { scanner.yielded[i] : i \in DOMAIN scanner.yielded } = Duplicatable
    /\ Len(scanner.yielded) = Cardinality(Duplicatable)

\* C38: the discovery iterator is fused: once next() has returned None every
\* later call of next() on the same Factory returns None too, for every
\* configuration of adapters, outputs and outputs that cannot be duplicated.
C38_FusedAfterNone ==
  scanner.st = "exhausted" => scanner.last = "None"

NoManager ==
  [st |-> "none", contexts |-> <<>>, result |-> "none", seen |-> <<>>,
   before |-> 0]

\* the second loop of refresh from adapter a, output o on (both counted from
\* 1): adapters without outputs were not collected, D3D11CreateDevice and
\* DuplicateOutput leave with `?`
RECURSIVE refresh_from(_, _, _, _)
refresh_from(machine, a, o, contexts) ==
  IF a > Len(machine) THEN [contexts |-> contexts, result |-> "Ok"]
  ELSE IF Len(machine[a].outputs) = 0
       THEN refresh_from(machine, a + 1, 1, contexts)
  ELSE IF ~machine[a].device_ok
       THEN [contexts |-> contexts, result |-> "D3D11CreateDevice"]
  ELSE IF o > Len(machine[a].outputs)
       THEN refresh_from(machine, a + 1, 1, contexts)
  ELSE IF ~machine[a].outputs[o]
       THEN [contexts |-> contexts, result |-> "DuplicateOutput"]
  ELSE refresh_from(machine, a, o + 1, Append(contexts, <<a - 1, o - 1>>))

\* mutant: the contexts of the refresh before are kept
refresh_accumulating(machine, contexts, factory_ok) ==
  IF ~factory_ok THEN [contexts |-> contexts, result |-> "CreateDXGIFactory1"]
  ELSE IF \A a \in DOMAIN machine : Len(machine[a].outputs) = 0
       THEN [contexts |-> contexts, result |-> "NoOutput"]
  ELSE refresh_from(machine, 1, 1, contexts)

\* Manager::refresh on the Manager holding contexts
refresh(machine, contexts, factory_ok) ==
  LET cleared == <<>>
  IN IF ~factory_ok THEN [contexts |-> cleared, result |-> "CreateDXGIFactory1"]
     ELSE IF \A a \in DOMAIN machine : Len(machine[a].outputs) = 0
          THEN [contexts |-> cleared, result |-> "NoOutput"]
     ELSE refresh_from(machine, 1, 1, cleared)

InitMgr ==
  /\ InitOff
  /\ arg = NoArg
  /\ ret = NoRet
  /\ shared = NoShared
  /\ delivered = NoDelivered
  /\ ShmOff /\ MultiOff
  /\ sys \in Machines
  /\ scanner = <<>>
  /\ manager = NoManager

\* Manager::new
Manager_new ==
  /\ manager.st = "none"
  /\ manager' = [NoManager EXCEPT !.st = "ready"]
  /\ UNCHANGED <<mvars, arg, ret, shared, delivered, mappings, sm, created,
                 sys, scanner, sessions, caps, turn>>

\* one call of Manager::refresh
Manager_refresh ==
  /\ manager.st = "ready"
  /\ \E factory_ok \in BOOLEAN :
       LET r == refresh(sys, manager.contexts, factory_ok)
       IN manager' = [manager EXCEPT !.contexts = r.contexts,
                                     !.result = r.result,
                                     !.seen = sys,
                                     !.before = Len(manager.contexts)]
  /\ UNCHANGED <<mvars, arg, ret, shared, delivered, mappings, sm, created,
                 sys, scanner, sessions, caps, turn>>

\* the last adapter of the machine is removed
AdapterRemoved ==
  /\ manager.st = "ready"
  /\ Len(sys) > 0
  /\ sys' = SubSeq(sys, 1, Len(sys) - 1)
  /\ UNCHANGED <<mvars, manager, arg, ret, shared, delivered, mappings, sm,
                 created, scanner, sessions, caps, turn>>

NextMgr ==
  \/ Manager_new
  \/ Manager_refresh
  \/ AdapterRemoved

SpecMgr == InitMgr /\ [][NextMgr]_vars

\* the outputs the first loop of refresh enumerates on machine
Enumerated(machine) ==
  { p \in (0..(MaxAdapters - 1)) \X (0..(MaxOutputs - 1)) :
      /\ p[1] + 1 \in DOMAIN machine
      /\ p[2] + 1 \in DOMAIN machine[p[1] + 1].outputs }

\* C34: refresh replaces rather than accumulates: after a successful refresh
\* contexts holds exactly one context per output enumerated by that refresh
\* and none of an earlier refresh, so repeating refresh on unchanged hardware
\* leaves the same number of contexts.
C34_RefreshReplaces ==
  (manager.st = "ready" /\ manager.result = "Ok") =>
    /\ { manager.contexts[i] : i \in DOMAIN manager.contexts }
         = Enumerated(manager.seen)
    /\ Len(manager.contexts) = Cardinality(Enumerated(manager.seen))

C34_Witness ==
  /\ manager.st = "ready"
  /\ manager.result = "Ok"
  /\ manager.before > Len(manager.contexts)
  /\ Len(manager.contexts) > 0

\* ------------------------------------------- capturers running side by side
\* SpecMulti runs capture_with_pointer_shape_unchecked on NumCapturers
\* threads, one Capturer per thread; a step is one driver call of one thread.
NumCapturers == 2

Threads == 1..NumCapturers

\* mutant: every Capturer is built on the Monitor of the first output
SessionOf_first(i) == 1

\* the session behind Capturer i: each Capturer owns its Monitor, and the
\* discovery hands out one Monitor, with its own duplication, per output
SessionOf(i) == i

\* the image an output shows and the pointer shape it reports
ImageOf(s) == s

InitMulti ==
  /\ InitOff
  /\ arg = NoArg
  /\ ret = NoRet
  /\ shared = NoShared
  /\ delivered = NoDelivered
  /\ ShmOff /\ ScanOff /\ MgrOff
  /\ sessions = [s \in Threads |-> [dupl |-> "idle", frame |-> 0,
                                    invalid_call |-> FALSE]]
  /\ caps = [i \in Threads |-> [pc |-> "idle", staging |-> 0, buffer |-> 0,
                                pointer_shape_buffer |-> 0]]
  /\ turn = 0

\* thread i enters the call: Monitor::acquire_next_frame up to its `?`
Thread_AcquireNextFrame(i) ==
  /\ caps[i].pc = "idle"
  /\ \E hr \in AcquireOutcomes(sessions[SessionOf(i)].dupl) :
       /\ sessions' = [sessions EXCEPT ![SessionOf(i)] =
            [dupl |-> IF hr = S_OK THEN "held"
                      ELSE IF hr = ACCESS_LOST THEN "lost" ELSE @.dupl,
             frame |-> IF hr = S_OK THEN ImageOf(SessionOf(i)) ELSE @.frame,
             invalid_call |-> @.invalid_call \/ hr = INVALID_CALL]]
       /\ caps' = [caps EXCEPT ![i].pc =
                     IF hr = S_OK THEN "copy_resource" ELSE "idle"]
  /\ turn' = i
  /\ UNCHANGED <<mvars, manager, arg, ret, shared, delivered, mappings, sm, created,
                 sys, scanner>>

\* thread i: the CopyResource into the Capturer's own staging texture
Thread_CopyResource(i) ==
  /\ caps[i].pc = "copy_resource"
  /\ caps' = [caps EXCEPT ![i].staging = sessions[SessionOf(i)].frame,
                          ![i].pc = "shape"]
  /\ turn' = i
  /\ UNCHANGED <<mvars, manager, arg, ret, shared, delivered, mappings, sm, created,
                 sys, scanner, sessions>>

\* thread i: the shape test and GetFramePointerShape into the Capturer's own
\* pointer shape buffer
Thread_GetFramePointerShape(i) ==
  /\ caps[i].pc = "shape"
  /\ \E updated \in BOOLEAN :
       caps' = [caps EXCEPT ![i].pointer_shape_buffer =
                               IF updated /\ sessions[SessionOf(i)].dupl = "held"
                               THEN ImageOf(SessionOf(i)) ELSE @,
                            ![i].pc = "release"]
  /\ turn' = i
  /\ UNCHANGED <<mvars, manager, arg, ret, shared, delivered, mappings, sm, created,
                 sys, scanner, sessions>>

\* thread i: Monitor::release_frame and its `?`
Thread_ReleaseFrame(i) ==
  /\ caps[i].pc = "release"
  /\ \E hr \in ReleaseOutcomes(sessions[SessionOf(i)].dupl) :
       /\ sessions' = [sessions EXCEPT ![SessionOf(i)] =
            [dupl |-> IF hr = S_OK THEN "idle"
                      ELSE IF hr = ACCESS_LOST THEN "lost" ELSE @.dupl,
             frame |-> IF hr = INVALID_CALL THEN @.frame ELSE 0,
             invalid_call |-> @.invalid_call \/ hr = INVALID_CALL]]
       /\ caps' = [caps EXCEPT ![i].pc = IF hr = S_OK THEN "map" ELSE "idle"]
  /\ turn' = i
  /\ UNCHANGED <<mvars, manager, arg, ret, shared, delivered, mappings, sm, created,
                 sys, scanner>>

\* thread i: Map, the pixel copy into the Capturer's buffer, Unmap, return
Thread_MapCopyUnmap(i) ==
  /\ caps[i].pc = "map"
  /\ \E hr \in {S_OK, E_FAIL} :
       caps' = [caps EXCEPT ![i].buffer = IF hr = S_OK THEN caps[i].staging
                                          ELSE @,
                            ![i].pc = "idle"]
  /\ turn' = i
  /\ UNCHANGED <<mvars, manager, arg, ret, shared, delivered, mappings, sm, created,
                 sys, scanner, sessions>>

NextMulti ==
  \/ \E i \in Threads : Thread_AcquireNextFrame(i)
  \/ \E i \in Threads : Thread_CopyResource(i)
  \/ \E i \in Threads : Thread_GetFramePointerShape(i)
  \/ \E i \in Threads : Thread_ReleaseFrame(i)
  \/ \E i \in Threads : Thread_MapCopyUnmap(i)

SpecMulti == InitMulti /\ [][NextMulti]_vars

C31_ShapeErrorIsReturned ==
  \A hr \in {E_FAIL, INVALID_CALL} :
    (pc = "idle" /\ WithShape(op) /\ Answered("GetFramePointerShape", hr)) =>
      /\ Count(calls, "ReleaseFrame") = 1
      /\ ~Issued("Map")
      /\ ~Issued("copy")
      /\ buffer = pre.buffer
      /\ result = Err(from_win_err(API_SHAPE, hr))

\* C32: in the fast path of the pixel copy (Pitch = Width * 4) the number of
\* bytes copied is Height * Pitch = Width * Height * 4, the size of the
\* mapped region, for every destination that passes check_buffer, longer
\* ones included; no byte behind the mapped region is read.
C32_FastPathCopiesMappedRegion ==
  (/\ ret.kind = "pixel_copy"
   /\ arg.pad = 0
   /\ check_buffer(vec_zeroed(arg.len), arg.v, arg.v).tag = "Ok") =>
    /\ ret.row_bytes = arg.v.Height * arg.v.Width * BytesPerPixel
    /\ ret.rd_end <= MappedLen(arg.v, arg.v.Width * BytesPerPixel)


\* C33: whenever check_buffer succeeds, capture() and capture_unchecked()
\* (and capture_with_pointer_shape() and its unchecked variant) are
\* equivalent: the checked call enters the driver protocol at the same point
\* and in the same state as the unchecked one, with no driver call issued and
\* nothing written by the check, so equal driver responses give the same
\* driver calls, result and buffer contents.
C33_CheckedEqualsUncheckedWhenCheckPasses ==
  [][ (/\ pc = "idle"
       /\ op' \in {"capture", "capture_with_pointer_shape"}
       /\ check_buffer(buffer, mode, texture_desc).tag = "Ok") =>
        /\ pc' = "acquire"
        /\ result' = NoResult
        /\ calls' = <<>>
        /\ copied' = NoCopy
        /\ pre' = [buffer |-> buffer,
                   pointer_shape_buffer |-> pointer_shape_buffer,
                   mode |-> mode]
        /\ UNCHANGED <<mode, dupl, frame, staging, mapped, buffer,
                       pointer_shape_buffer, texture_desc, frame_info,
                       pointer_shape_info, pending, mapped_surface>>
        /\ ENABLED capture_unchecked
        /\ ENABLED capture_with_pointer_shape_unchecked ]_vars

C33_Witness ==
  /\ pc = "idle"
  /\ op \in {"capture", "capture_with_pointer_shape"}
  /\ check_buffer(pre.buffer, pre.mode, texture_desc).tag = "Ok"
  /\ result.tag = "Ok"
  /\ buffer # pre.buffer
  /\ Answered("Unmap", S_OK)

\* C36: if a capture call (capture, capture_unchecked,
\* capture_with_pointer_shape or its unchecked variant) returns an error,
\* whichever driver step failed (acquire, release, GetFramePointerShape, Map
\* or Unmap), the frame buffer holds exactly the bytes it held before the
\* call.
C36_ErrorLeavesBufferAlone ==
  (/\ pc = "idle"
   /\ op \in {"capture", "capture_unchecked", "capture_with_pointer_shape",
              "capture_with_pointer_shape_unchecked"}
   /\ result.tag = "Err") =>
    buffer = pre.buffer

\* C37: in every capture that passes check_buffer the width and height used
\* by the pixel copy (the texture descriptor cached at construction) describe
\* the same number of bytes as the geometry check_buffer validated against
\* (the duplication mode read at capture time), so the copy never writes
\* more than buffer.len() bytes, also when the output mode changed between
\* construction and the capture.
C37_CopyGeometryIsCheckedGeometry ==
  (/\ pc = "unmap"
   /\ op \in {"capture", "capture_with_pointer_shape"}
   /\ check_buffer(pre.buffer, pre.mode, texture_desc).tag = "Ok") =>
    /\ calc_buffer_size(texture_desc) = calc_buffer_size(pre.mode)
    /\ copied.wr_end <= Len(pre.buffer)

\* C40: a process that opened the shared buffer and reads it while the
\* creating process runs capture() never observes a torn frame: every
\* snapshot it reads consists of the bytes of one completed capture or of
\* the initial contents, never of a mixture of two.
C40_NoTornFrame ==
  (/\ ret.kind = "SharedCapturer::buffer"
   /\ ret.by = "open"
   /\ ~sm["open"].wrote) =>
    \A i, j \in DOMAIN ret.data : ret.data[i] = ret.data[j]

====
